---- MODULE Spec2Model ----
(***************************************************************************)
(* FlowProxy: the request Recorder (RequestStore), the certificate        *)
(* authority (CertManager), the flow walk (FlowEngine) and the proxy      *)
(* engine (ProxyEngine), modelled as state machines.                      *)
(*                                                                         *)
(* SpecStore  - RequestStore driven directly by add / clear.              *)
(***************************************************************************)
EXTENDS Integers, Sequences, FiniteSets, TLC

\* ------------------------------------------------------------------ bounds
\* requestStore.ts:3 sets MAX_RECORDS = 2000; the model runs the same code
\* with a small capacity so that the buffer fills.
MAX_RECORDS == 2

\* number of distinct record ids the direct store driver uses
MaxRecIds == 3

\* root key pairs a user may import, and roots initCA may generate
MaxImported == 2

MaxGenerated == 2

\* client connections, proxy listener objects and MITM listener objects
\* that can exist at one time, stop calls that can be waiting at one time,
\* and requests handled in one run
MaxSockets == 2

MaxServers == 2

MaxMitmServers == 2

MaxPendingStops == 2

MaxRequests == 2

None == "undefined"

SocketIds == 1..MaxSockets

ServerIds == 1..MaxServers

MitmIds == 1..MaxMitmServers

ReqIds == 1..MaxRequests

\* hostnames; the second is a literal IPv4 address
Hosts == {"a.test", "10.0.0.1"}

\* a root key pair is named by how it came to be; key and certificate of
\* one pair carry the same name
NullRoot == <<"null", 0>>

BadPem == <<"bad", 0>>

ImportedRoots == {<<"imported", i>> : i \in 1..MaxImported}

PersistedRoot == <<"persisted", 0>>

RecIds == 1..MaxRecIds

\* ------------------------------------------------------------------ state
VARIABLES
  records,      \* RequestStore.records: RequestRecord[] (oldest first)
  recordMap,    \* RequestStore.recordMap: id -> the same record object
  insertOrder,  \* history: ids now held, in the order they were inserted
  lastEvicted,  \* history: the id removed by the latest add, if it evicted
  caKey,        \* CertManager.caKey / caKeyPem (NullRoot = null)
  caCert,       \* CertManager.caCert / caCertPem
  diskKey,      \* certs/ca.key (NullRoot = file absent)
  diskCert,     \* certs/ca.crt
  certCache,    \* CertManager.certCache: hostname -> leaf
  genCount,     \* roots generated so far (names the next generated pair)
  mintCount,    \* leaves minted so far (names the next leaf key)
  caReturned,   \* the leaf the latest CertManager call returned, if any
  running,      \* ProxyEngine.running
  server,       \* ProxyEngine.server: {} = null, {s} = the http.Server s
  servers,      \* the http.Server objects: state and waiting stop promises
  httpsMitmEnabled, \* ProxyEngine.httpsMitmEnabled
  httpsMitmServers, \* ProxyEngine.httpsMitmServers: hostname -> https.Server
  mitmServers,  \* the https.Server objects created by getOrCreateHttpsMitmPort
  connections,  \* ProxyEngine.connections: the tracked client sockets
  sockets,      \* the client sockets
  reqs,         \* the requests handled: position of the handler and history
  components,   \* ComponentStore.components: id -> ComponentDefinition
  componentFiles, \* components/<id>.json: id -> the definition written
  componentError, \* history: did the latest ComponentStore call throw
  flowStore,    \* FlowStore.flows: the Map's entries in insertion order
  sample,       \* the request of the latest processRequest call, if any
  processed,    \* the result of that call
  appConfig,    \* ConfigStore.config
  call          \* the latest call of a component handler or helper: its
                \* arguments and what it returned

storeVars == <<records, recordMap, insertOrder, lastEvicted>>

caVars == <<caKey, caCert, diskKey, diskCert, certCache, genCount, mintCount,
            caReturned>>

engineVars == <<running, server, servers, httpsMitmEnabled, httpsMitmServers,
                mitmServers, connections, sockets>>

compVars == <<components, componentFiles, componentError>>

flowVars == <<flowStore, sample, processed>>

restVars == <<appConfig, call>>

vars == <<records, recordMap, insertOrder, lastEvicted,
          caKey, caCert, diskKey, diskCert, certCache, genCount, mintCount,
          caReturned,
          running, server, servers, httpsMitmEnabled, httpsMitmServers,
          mitmServers, connections, sockets, reqs,
          components, componentFiles, componentError,
          flowStore, sample, processed, appConfig, call>>

\* ------------------------------------------------------------ RequestStore
RecordIds(rs) == {rs[i].id : i \in 1..Len(rs)}

RemoveId(s, id) == SelectSeq(s, LAMBDA x : x # id)

\* an add that replaces the existing record by the supplied one
ObjectReplace(existing, record) == record

\* Object.assign(existing, record): every own property of record overwrites
ObjectAssign(existing, record) ==
  [f \in (DOMAIN existing) \cup (DOMAIN record) |->
     IF f \in DOMAIN record THEN record[f] ELSE existing[f]]

\* records.shift() then recordMap.delete(oldest.id)
ShiftOldest(rs) == Tail(rs)

IsFullOffByOne(rs) == Len(rs) > MAX_RECORDS

\* the capacity test of add
IsFull(rs) == Len(rs) >= MAX_RECORDS

\* RequestStore.add(record)
StoreAdd(record) ==
  IF record.id \in DOMAIN recordMap
  THEN \* existing: merged in place, the list and the map share the object
    /\ records' = [i \in 1..Len(records) |->
                     IF records[i].id = record.id
                     THEN ObjectAssign(records[i], record) ELSE records[i]]
    /\ recordMap' = [recordMap EXCEPT
                       ![record.id] = ObjectAssign(recordMap[record.id], record)]
    /\ UNCHANGED <<insertOrder, lastEvicted>>
  ELSE IF IsFull(records)
  THEN LET oldest == Head(records)
           kept == ShiftOldest(records)
       IN /\ records' = Append(kept, record)
          /\ recordMap' =
               [i \in ((DOMAIN recordMap) \ {oldest.id}) \cup {record.id} |->
                  IF i = record.id THEN record ELSE recordMap[i]]
          /\ insertOrder' = Append(RemoveId(insertOrder, oldest.id), record.id)
          /\ lastEvicted' = {oldest.id}
  ELSE /\ records' = Append(records, record)
       /\ recordMap' = [i \in (DOMAIN recordMap) \cup {record.id} |->
                          IF i = record.id THEN record ELSE recordMap[i]]
       /\ insertOrder' = Append(insertOrder, record.id)
       /\ lastEvicted' = {}

\* a clear that resets the list and leaves the index alone
StoreClearListOnly ==
  /\ records' = <<>>
  /\ UNCHANGED recordMap
  /\ insertOrder' = <<>>
  /\ lastEvicted' = {}

\* RequestStore.clear()
StoreClear ==
  /\ records' = <<>>
  /\ recordMap' = [i \in {} |-> None]
  /\ insertOrder' = <<>>
  /\ lastEvicted' = {}

\* RequestStore.getCount()
getCount == Len(records)

\* what getById gives for an id not held (undefined)
NoRecord == [id |-> 0]

\* RequestStore.getById(id): recordMap.get(id)
getById(id) == IF id \in DOMAIN recordMap THEN recordMap[id] ELSE NoRecord

\* the record arguments the direct driver passes to add
CreateArgs == [id : RecIds, request : {"q1", "q2"}]

UpdateArgs == [id : RecIds, request : {"q1"}, response : {"p1", None},
               durationMs : {1}, matchedFlowId : {"f1", None}]

\* ------------------------------------------------------------- CertManager
\* /^\d+\.\d+\.\d+\.\d+$/ on the hostnames of the model
IsIPv4(h) == h \in {"10.0.0.1"}

\* a leaf whose subjectAltName holds the DNS name only
generateHostCertificateDnsOnly(hostname, key, cert, serial) ==
  [cn |-> hostname, sanDns |-> hostname, sanIp |-> None,
   signedBy |-> key, issuer |-> cert, leafKey |-> serial]

\* generateHostCertificate(hostname): a fresh leaf key, signed by this.caKey,
\* issuer taken from this.caCert
generateHostCertificate(hostname, key, cert, serial) ==
  [cn |-> hostname,
   sanDns |-> hostname,
   sanIp |-> IF IsIPv4(hostname) THEN hostname ELSE None,
   signedBy |-> key,
   issuer |-> cert,
   leafKey |-> serial]

\* outcome of the two fs.writeFileSync calls: both succeed, the first throws,
\* or the second throws after the first was written
WriteOutcomes == {"ok", "failKey", "failCert"}

WriteFiles(key, cert, outcome) ==
  /\ diskKey' = IF outcome = "failKey" THEN diskKey ELSE key
  /\ diskCert' = IF outcome = "ok" THEN cert ELSE diskCert

\* an initCA that generates and persists a root on every call
InitCAAlwaysGenerates(outcome) ==
  /\ genCount < MaxGenerated
  /\ caKey' = <<"generated", genCount + 1>>
  /\ caCert' = <<"generated", genCount + 1>>
  /\ genCount' = genCount + 1
  /\ WriteFiles(<<"generated", genCount + 1>>, <<"generated", genCount + 1>>, outcome)

\* initCA(): load when both files exist, else generate and persist.
\* The body has no suspension point; it runs to completion or throws.
InitCAEffect(outcome) ==
  IF diskKey # NullRoot /\ diskCert # NullRoot
  THEN /\ caKey' = diskKey
       /\ caCert' = diskCert
       /\ UNCHANGED <<diskKey, diskCert, genCount>>
  ELSE /\ genCount < MaxGenerated
       /\ caKey' = <<"generated", genCount + 1>>
       /\ caCert' = <<"generated", genCount + 1>>
       /\ genCount' = genCount + 1
       /\ WriteFiles(<<"generated", genCount + 1>>,
                     <<"generated", genCount + 1>>, outcome)

\* does initCA throw with this outcome (only the generate path writes)
InitCAThrows(outcome) ==
  /\ ~(diskKey # NullRoot /\ diskCert # NullRoot)
  /\ outcome # "ok"

InitCA ==
  \E outcome \in WriteOutcomes :
    /\ InitCAEffect(outcome)
    /\ caReturned' = {}
    /\ UNCHANGED <<certCache, mintCount>>

\* a lookup that mints and stores a leaf whether or not one is cached
MintAlways(hostname, key, cert) ==
  LET leaf == generateHostCertificate(hostname, key, cert, mintCount + 1)
  IN /\ certCache' = [h \in (DOMAIN certCache) \cup {hostname} |->
                        IF h = hostname THEN leaf ELSE certCache[h]]
     /\ mintCount' = mintCount + 1
     /\ caReturned' = {leaf}

\* getCertificateForHost(hostname), after the CA is loaded (key, cert)
LookupOrMint(hostname, key, cert) ==
  IF hostname \in DOMAIN certCache
  THEN /\ caReturned' = {certCache[hostname]}
       /\ UNCHANGED <<certCache, mintCount>>
  ELSE LET leaf == generateHostCertificate(hostname, key, cert, mintCount + 1)
       IN /\ certCache' = [h \in (DOMAIN certCache) \cup {hostname} |->
                             IF h = hostname THEN leaf ELSE certCache[h]]
          /\ mintCount' = mintCount + 1
          /\ caReturned' = {leaf}

\* getCertificateForHost(hostname): initCA first when no root is loaded; a
\* throw of initCA rejects the call (nothing is returned)
GetCertificateForHostEffect(hostname, outcome) ==
  IF caKey = NullRoot \/ caCert = NullRoot
  THEN /\ InitCAEffect(outcome)
       /\ IF InitCAThrows(outcome)
          THEN /\ caReturned' = {}
               /\ UNCHANGED <<certCache, mintCount>>
          ELSE LookupOrMint(hostname, caKey', caCert')
  ELSE /\ LookupOrMint(hostname, caKey, caCert)
       /\ UNCHANGED <<caKey, caCert, diskKey, diskCert, genCount>>

GetCertificateForHost ==
  \E hostname \in Hosts, outcome \in WriteOutcomes :
    GetCertificateForHostEffect(hostname, outcome)

\* importCAFromPem(caKeyPem, caCertPem): parse both (a bad PEM throws before
\* anything is assigned), assign the in-memory pair, then write the two files
ImportCAFromPemEffect(keyPem, certPem, outcome) ==
  /\ IF keyPem = BadPem \/ certPem = BadPem
     THEN UNCHANGED <<caKey, caCert, diskKey, diskCert>>
     ELSE /\ caKey' = keyPem
          /\ caCert' = certPem
          /\ WriteFiles(keyPem, certPem, outcome)
  /\ caReturned' = {}
  /\ UNCHANGED <<certCache, genCount, mintCount>>

ImportCAFromPem ==
  \E keyPem \in ImportedRoots \cup {BadPem},
     certPem \in ImportedRoots \cup {BadPem},
     outcome \in WriteOutcomes :
    ImportCAFromPemEffect(keyPem, certPem, outcome)

CAInit ==
  /\ caKey = NullRoot
  /\ caCert = NullRoot
  /\ diskKey \in {NullRoot, PersistedRoot}
  /\ diskCert = diskKey
  /\ certCache = [h \in {} |-> None]
  /\ genCount = 0
  /\ mintCount = 0
  /\ caReturned = {}

\* --------------------------------------------------------------------- URLs
\* A URL string is kept as its parts; port 0 stands for "no port written".
\* An origin-form request-target has no scheme and no authority.
Url(scheme, host, port, path) ==
  [scheme |-> scheme, host |-> host, port |-> port, path |-> path]

OriginForm(path) == Url("", "", 0, path)

HttpPort == 80

HttpsPort == 443

DefaultPort(scheme) == IF scheme = "https" THEN HttpsPort ELSE HttpPort

\* /^https?:\/\// and the precondition of new URL(...) on these strings
IsAbsoluteUrl(u) == u.scheme \in {"http", "https"}

\* new URL(u): the parsed URL drops a port equal to the scheme's default
ParseURL(u) ==
  [protocol |-> u.scheme,
   hostname |-> u.host,
   port |-> IF u.port = DefaultPort(u.scheme) THEN 0 ELSE u.port,
   pathname |-> u.path]

\* url.toString()
UrlToString(p) == Url(p.protocol, p.hostname, p.port, p.pathname)

\* ------------------------------------------------------------ HttpResponse
\* src is a history label: who produced the response
UndefinedResponse == [src |-> "undefined"]

\* ------------------------------------------------------ built-in components
EmptyResult == [f \in {} |-> TRUE]

\* Map.set and Map.delete, object property assignment
MapSet(map, key, value) ==
  [k \in (DOMAIN map) \cup {key} |-> IF k = key THEN value ELSE map[k]]

MapDelete(map, key) == [k \in (DOMAIN map) \ {key} |-> map[k]]

\* mockResponse(config, ctx)
mockResponse(config, ctx) ==
  [response |-> [statusCode |-> config.statusCode,
                 body |-> config.body,
                 src |-> "component"],
   terminate |-> TRUE]

\* upstreamHost(config, ctx): rewrite scheme, host and port of an absolute
\* URL and overwrite the Host header
upstreamHost(config, ctx) ==
  IF ~IsAbsoluteUrl(ctx.request.url) THEN EmptyResult
  ELSE IF config.targetHost = "" THEN EmptyResult
  ELSE LET url == ParseURL(ctx.request.url)
           \* url.port = hostPort drops the default port of the old scheme,
           \* url.protocol = ... then drops the default port of the new one
           port1 == IF config.targetPort = DefaultPort(url.protocol)
                    THEN 0 ELSE config.targetPort
           rewritten == [url EXCEPT !.hostname = config.targetHost,
                                    !.port = IF port1 = DefaultPort(config.targetScheme)
                                             THEN 0 ELSE port1,
                                    !.protocol = config.targetScheme]
       IN [request |-> [ctx.request EXCEPT
                          !.url = UrlToString(rewritten),
                          !.headers = [h \in (DOMAIN ctx.request.headers) \cup {"host"} |->
                                         IF h = "host"
                                         THEN <<config.targetHost, config.targetPort>>
                                         ELSE ctx.request.headers[h]]]]

\* delay(config, ctx): suspends, then returns {}
delay(config, ctx) == EmptyResult

\* tagRequest(config, ctx): assigns ctx.vars.tags[key] on the live context
\* and returns {}; ctxVars is the ctx.vars object as the call leaves it
tagRequest(config, ctx) ==
  IF config.tagKey = "" THEN EmptyResult
  ELSE LET tags == IF "tags" \in DOMAIN ctx.vars THEN ctx.vars.tags ELSE EmptyResult
       IN [ctxVars |-> MapSet(ctx.vars, "tags",
                              MapSet(tags, config.tagKey, config.tagValue))]

BuiltinNames == {"mockResponse", "upstreamHost", "delay", "tagRequest"}

\* executeBuiltinComponent(internalName, config, ctx); an unknown name throws
executeBuiltinComponent(internalName, config, ctx) ==
  CASE internalName = "mockResponse" -> mockResponse(config, ctx)
    [] internalName = "upstreamHost" -> upstreamHost(config, ctx)
    [] internalName = "delay" -> delay(config, ctx)
    [] internalName = "tagRequest" -> tagRequest(config, ctx)
    [] OTHER -> [throws |-> TRUE]

\* executeScriptComponent(scriptCode, config, ctx) for the scripts of the
\* model. The script runs on sandbox.ctx: request and response are deep
\* copies, vars is { ...ctx.vars }, so the objects held in ctx.vars are the
\* live ones.
\*   "setResponse"  ctx.response = {...}; no run function, so the
\*                  post-execution ctx is projected into the result
\*   "setVarThrow"  ctx.vars.seen = '1'; throw ...   (assigns on the copy)
\*   "tagThenThrow" ctx.vars.tags.seen = '1'; throw ...  (assigns inside the
\*                  live tags object; a TypeError when there is no tags)
\*   "throw"        throw ...
executeScriptComponent(scriptCode, config, ctx) ==
  CASE scriptCode = "setResponse" ->
         [request |-> ctx.request,
          response |-> [statusCode |-> config.statusCode,
                        body |-> config.body,
                        src |-> "component"],
          vars |-> ctx.vars]
    [] scriptCode = "tagThenThrow" /\ "tags" \in DOMAIN ctx.vars ->
         [throws |-> TRUE,
          ctxVars |-> MapSet(ctx.vars, "tags", MapSet(ctx.vars.tags, "seen", "1"))]
    [] OTHER -> [throws |-> TRUE]

\* ComponentStore contents: component id -> definition
ComponentDefs ==
  [id \in {"mock-response", "upstream-host", "delay", "tag-request",
           "script-respond", "script-throw", "script-var-throw",
           "script-tag-throw", "broken-builtin"} |->
     CASE id = "mock-response" -> [type |-> "builtin", internalName |-> "mockResponse"]
       [] id = "upstream-host" -> [type |-> "builtin", internalName |-> "upstreamHost"]
       [] id = "delay" -> [type |-> "builtin", internalName |-> "delay"]
       [] id = "script-respond" -> [type |-> "script", scriptCode |-> "setResponse"]
       [] id = "tag-request" -> [type |-> "builtin", internalName |-> "tagRequest"]
       [] id = "script-throw" -> [type |-> "script", scriptCode |-> "throw"]
       [] id = "script-var-throw" -> [type |-> "script", scriptCode |-> "setVarThrow"]
       [] id = "script-tag-throw" -> [type |-> "script", scriptCode |-> "tagThenThrow"]
       [] OTHER -> [type |-> "builtin", internalName |-> "noSuchHandler"]]

\* ---------------------------------------------------------- ComponentStore
BuiltinIds == {"mock-response", "upstream-host", "delay", "tag-request"}

\* BUILTIN_COMPONENTS, by id
BUILTIN_COMPONENTS == [id \in BuiltinIds |-> ComponentDefs[id]]

\* the components the COMPONENT_SAVE handler is called with
ComponentArgs ==
  [id : {"mock-response", "my-script"}, type : {"builtin", "script"},
   code : {"delay", "userCode"}]

\* the definition held for a saved component
DefinitionOf(component) ==
  IF component.type = "builtin"
  THEN [type |-> "builtin", internalName |-> component.code]
  ELSE [type |-> "script", scriptCode |-> component.code]

\* loadBuiltins() then loadCustomComponents(): every file's component is
\* set under its id, after the built-ins
LoadComponents(files) ==
  [id \in BuiltinIds \cup DOMAIN files |->
     IF id \in DOMAIN files THEN files[id] ELSE BUILTIN_COMPONENTS[id]]

\* ComponentStore.save(component); outcome is that of writeFileSync
ComponentStoreSave(component, outcome) ==
  IF /\ component.id \in DOMAIN components
     /\ components[component.id].type = "builtin"
     /\ component.type # "builtin"
  THEN /\ componentError' = TRUE
       /\ UNCHANGED <<components, componentFiles>>
  ELSE /\ components' = MapSet(components, component.id, DefinitionOf(component))
       /\ IF component.type = "script" /\ outcome = "ok"
          THEN componentFiles' =
                 MapSet(componentFiles, component.id, DefinitionOf(component))
          ELSE UNCHANGED componentFiles
       /\ componentError' = (component.type = "script" /\ outcome # "ok")

\* ComponentStore.delete(id)
ComponentStoreDelete(id) ==
  IF id \in DOMAIN components /\ components[id].type = "builtin"
  THEN /\ componentError' = TRUE
       /\ UNCHANGED <<components, componentFiles>>
  ELSE /\ components' = MapDelete(components, id)
       /\ componentFiles' = MapDelete(componentFiles, id)
       /\ componentError' = FALSE

\* new ComponentStore() at the next launch of the application
ComponentStoreConstruct ==
  /\ components' = LoadComponents(componentFiles)
  /\ componentError' = FALSE
  /\ UNCHANGED componentFiles

\* the store after construction with one script component on disk
CompInit ==
  /\ componentFiles = [id \in {"script-respond"} |-> ComponentDefs[id]]
  /\ components = LoadComponents(componentFiles)
  /\ componentError = FALSE

\* ------------------------------------------------------------- FlowEngine
\* FlowEngine.executeComponentNode: unknown component and any throw give {}
executeComponentNode(node, ctx) ==
  IF node.componentId \notin DOMAIN ComponentDefs THEN EmptyResult
  ELSE LET componentDef == ComponentDefs[node.componentId]
           result == IF componentDef.type = "builtin"
                     THEN executeBuiltinComponent(componentDef.internalName, node.config, ctx)
                     ELSE executeScriptComponent(componentDef.scriptCode, node.config, ctx)
       IN IF "throws" \in DOMAIN result
          THEN \* catch: return {}; what the call assigned inside the live
               \* ctx.vars stays assigned
               IF "ctxVars" \in DOMAIN result
               THEN [ctxVars |-> result.ctxVars] ELSE EmptyResult
          ELSE result

\* the messages the handler of a component node passes to ctx.log, in order
componentLogs(node, ctx) ==
  IF node.componentId \notin DOMAIN ComponentDefs THEN <<>>
  ELSE LET componentDef == ComponentDefs[node.componentId] IN
    IF componentDef.type = "builtin"
    THEN CASE componentDef.internalName = "mockResponse" -> <<"Mock response">>
           [] componentDef.internalName = "upstreamHost" ->
                IF ~IsAbsoluteUrl(ctx.request.url)
                THEN <<"[upstreamHost] Request URL is not absolute, skip">>
                ELSE IF node.config.targetHost = "" THEN <<>>
                ELSE <<"[upstreamHost] ->">>
           [] componentDef.internalName = "delay" -> <<"Delaying">>
           [] componentDef.internalName = "tagRequest" ->
                IF node.config.tagKey = "" THEN <<>> ELSE <<"[tagRequest]">>
           [] OTHER -> <<>>
    ELSE IF "throws" \in DOMAIN
              executeScriptComponent(componentDef.scriptCode, node.config, ctx)
         THEN <<"[Script Error]">>
         ELSE <<>>

\* the expressions that read ctx.response.statusCode; the second one assigns
\* to ctx.vars.seen first
ReadsStatusCode ==
  {"ctx.response.statusCode === 200",
   "(ctx.vars.seen = '1') && ctx.response.statusCode === 200"}

\* new Function('ctx', `return ${expression}`) or fn(ctx) throws: a property
\* of the undefined ctx.response is read, or the text is no expression
conditionThrows(expression, ctx) ==
  CASE expression = "ctx.request.method === 'PUT'" -> FALSE
    [] expression = "!!ctx.response" -> FALSE
    [] expression \in ReadsStatusCode -> ctx.response = UndefinedResponse
    [] OTHER -> TRUE

\* the context after fn(ctx) returned or threw: fn is handed the live ctx
conditionEffect(expression, ctx) ==
  IF expression = "(ctx.vars.seen = '1') && ctx.response.statusCode === 200"
  THEN [ctx EXCEPT !.vars = MapSet(@, "seen", "1")]
  ELSE ctx

\* evalCondition(expression, ctx) for the expressions of the model; a throw
\* evaluates to false
evalCondition(expression, ctx) ==
  CASE conditionThrows(expression, ctx) -> FALSE
    [] expression = "ctx.request.method === 'PUT'" -> ctx.request.method = "PUT"
    [] expression = "!!ctx.response" -> ctx.response # UndefinedResponse
    [] OTHER -> ctx.response.statusCode = 200

SeqFind(s, P(_)) ==
  LET hits == {i \in 1..Len(s) : P(s[i])}
  IN IF hits = {} THEN 0 ELSE CHOOSE i \in hits : \A j \in hits : i <= j

\* findEntryNode(flow): index of the first entry node (0 = none)
findEntryNode(flow) == SeqFind(flow.nodes, LAMBDA n : n.type = "entry")

\* getNode(flow, nodeId)
getNode(flow, nodeId) == SeqFind(flow.nodes, LAMBDA n : n.id = nodeId)

\* getNextNodeId(flow, fromNodeId): target of the first edge leaving the node
getNextNodeId(flow, fromNodeId) ==
  LET e == SeqFind(flow.edges, LAMBDA x : x.from = fromNodeId)
  IN IF e = 0 THEN "" ELSE flow.edges[e].to

\* a lookup that falls back on the first edge leaving the node
getNextNodeIdAnyLabel(flow, fromNodeId, label) == getNextNodeId(flow, fromNodeId)
\* String.prototype.trim on the pieces of a header name list
Trim(piece) == IF piece = " X-TEST " THEN "X-TEST" ELSE piece

\* String.prototype.toLowerCase on header names
ToLowerCase(name) ==
  IF name \in {"X-Test", "X-TEST"} THEN "x-test"
  ELSE IF name = " X-TEST " THEN " x-test "
  ELSE name

\* delete headers[name.toLowerCase()] for each name in turn
RECURSIVE DeleteAll(_, _)
DeleteAll(headers, names) ==
  IF names = <<>> THEN headers
  ELSE DeleteAll(MapDelete(headers, ToLowerCase(Head(names))), Tail(names))

\* headers[key.toLowerCase()] = String(value) for each entry of setHeaders
RECURSIVE SetAll(_, _)
SetAll(headers, setHeaders) ==
  IF DOMAIN setHeaders = {} THEN headers
  ELSE LET key == CHOOSE k \in DOMAIN setHeaders : TRUE
       IN SetAll(MapSet(headers, ToLowerCase(key), setHeaders[key]),
                 MapDelete(setHeaders, key))

\* .split(',').map((s) => s.trim()).filter(Boolean) of a list that is kept
\* as its comma-separated pieces
SplitNames(pieces) ==
  SelectSeq([i \in 1..Len(pieces) |-> Trim(pieces[i])], LAMBDA name : name # "")

\* headerRewrite(config, ctx) of components/builtins.ts: setHeaders, then
\* removeHeaders ({} and <<>> stand for an absent setting)
headerRewriteLegacy(config, ctx) ==
  [request |-> [ctx.request EXCEPT
     !.headers = DeleteAll(SetAll(ctx.request.headers, config.setHeaders),
                           config.removeHeaders)]]

\* headerRewrite(config, ctx): addHeaderName/addHeaderValue, then
\* removeHeaderNames, then setHeaders, then removeHeaders, on a copy of the
\* request's headers ("" and <<>> stand for a falsy setting)
headerRewrite(config, ctx) ==
  LET added == IF config.addHeaderName # "" /\ config.addHeaderValue # None
               THEN MapSet(ctx.request.headers, ToLowerCase(config.addHeaderName),
                           config.addHeaderValue)
               ELSE ctx.request.headers
      removed == DeleteAll(added, SplitNames(config.removeHeaderNames))
  IN [request |-> [ctx.request EXCEPT
        !.headers = DeleteAll(SetAll(removed, config.setHeaders),
                              config.removeHeaders)]]

\* probabilities and draws are counted in tenths: Tenths stands for 1
Tenths == 10

\* how far outside [0, 1] the configured rates go, in tenths
MaxExcess == 2

\* the values of Math.random(): 0 <= draw < 1
Draws == 0..(Tenths - 1)

\* config.errorRate: a number, NaN, a numeric string, the empty string, a
\* string that is no number, or absent
ErrorRates ==
  {<<"number", n>> : n \in (0 - MaxExcess)..(Tenths + MaxExcess)}
    \cup {<<"string", n>> : n \in (0 - MaxExcess)..(Tenths + MaxExcess)}
    \cup {<<"NaN", 0>>, <<"text", 0>>, <<"empty", 0>>, <<"undefined", 0>>}

Min(a, b) == IF a <= b THEN a ELSE b

Max(a, b) == IF a >= b THEN a ELSE b

\* typeof config.errorRate === 'number' ? config.errorRate
\*   : Number(config.errorRate || 0.1): <<"NaN", 0>> is NaN
RateOf(errorRate) ==
  CASE errorRate[1] = "number" -> errorRate
    [] errorRate[1] = "NaN" -> <<"NaN", 0>>
    [] errorRate[1] = "string" -> <<"number", errorRate[2]>>
    [] errorRate[1] = "text" -> <<"NaN", 0>>
    [] OTHER -> <<"number", 1>>

\* isNaN(rate) ? 0.1 : Math.min(Math.max(rate, 0), 1)
ClampRate(rate) ==
  IF rate[1] = "NaN" THEN 1 ELSE Min(Max(rate[2], 0), Tenths)

\* the response randomFailure synthesizes
InjectedFailure(config) ==
  [response |-> [statusCode |-> IF config.statusCode = 0 THEN 500
                                ELSE config.statusCode,
                 statusMessage |-> "Injected Failure",
                 body |-> IF config.body = "" THEN "Injected failure by FlowProxy"
                          ELSE config.body,
                 src |-> "component"],
   terminate |-> TRUE]

\* a handler that passes only when the draw is above the rate
randomFailureAbove(config, draw) ==
  IF draw > ClampRate(RateOf(config.errorRate))
  THEN EmptyResult
  ELSE InjectedFailure(config)

\* randomFailure(config, ctx) when Math.random() returns draw
randomFailure(config, draw) ==
  IF draw >= ClampRate(RateOf(config.errorRate))
  THEN EmptyResult
  ELSE InjectedFailure(config)


\* getNextNodeIdByLabel(flow, fromNodeId, label)
getNextNodeIdByLabel(flow, fromNodeId, label) ==
  LET e == SeqFind(flow.edges,
                   LAMBDA x : x.from = fromNodeId /\ x.conditionLabel = label)
  IN IF e = 0 THEN "" ELSE flow.edges[e].to

\* the characters of the strings the rules and URLs of the model use
Chars(str) ==
  CASE str = "a.test" -> <<"a", ".", "t", "e", "s", "t">>
    [] str = "b.test" -> <<"b", ".", "t", "e", "s", "t">>
    [] str = "c.test" -> <<"c", ".", "t", "e", "s", "t">>
    [] str = "A.TEST" -> <<"A", ".", "T", "E", "S", "T">>
    [] str = "*.test" -> <<"*", ".", "t", "e", "s", "t">>
    [] str = "b?test" -> <<"b", "?", "t", "e", "s", "t">>
    [] str = "atest" -> <<"a", "t", "e", "s", "t">>
    [] str = "/x" -> <<"/", "x">>
    [] str = "/" -> <<"/">>
    [] str = "/?" -> <<"/", "?">>
    [] str = "/x/*" -> <<"/", "x", "/", "*">>
    [] str = "*" -> <<"*">>
    [] OTHER -> <<>>

\* the flag i of the RegExp
ToLower(c) ==
  CASE c = "A" -> "a" [] c = "T" -> "t" [] c = "E" -> "e" [] c = "S" -> "s"
    [] OTHER -> c

\* new RegExp('^' + regexPattern + '$', 'i').test(str): every character of
\* the pattern is escaped to stand for itself but * (.*) and ? (.)
RECURSIVE RegexTest(_, _)
RegexTest(str, pattern) ==
  IF pattern = <<>> THEN str = <<>>
  ELSE IF Head(pattern) = "*"
  THEN RegexTest(str, Tail(pattern)) \/ (str # <<>> /\ RegexTest(Tail(str), pattern))
  ELSE /\ str # <<>>
       /\ Head(pattern) = "?" \/ ToLower(Head(pattern)) = ToLower(Head(str))
       /\ RegexTest(Tail(str), Tail(pattern))

\* matchWildcard(str, pattern)
matchWildcard(str, pattern) ==
  pattern = "*" \/ RegexTest(Chars(str), Chars(pattern))

SeqSome(s, P(_)) == \E i \in 1..Len(s) : P(s[i])

\* matchesRule(request, rule)
matchesRule(request, rule) ==
  /\ Len(rule.methods) > 0 => SeqSome(rule.methods, LAMBDA m : m = request.method)
  /\ Len(rule.hostPatterns) > 0 =>
       /\ IsAbsoluteUrl(request.url)
       /\ SeqSome(rule.hostPatterns,
                  LAMBDA p : matchWildcard(ParseURL(request.url).hostname, p))
  /\ Len(rule.pathPatterns) > 0 =>
       /\ IsAbsoluteUrl(request.url)
       /\ SeqSome(rule.pathPatterns,
                  LAMBDA p : matchWildcard(ParseURL(request.url).pathname, p))

\* the result of runFlow; endedBy and trace are history: which return
\* statement produced the result, and the nodes the loop visited
FlowResult(request, response, flowId, endedBy) ==
  [request |-> request, response |-> response, matchedFlowId |-> flowId,
   endedBy |-> endedBy, trace |-> <<>>]

\* the ComponentContext without its history
Snapshot(ctx) ==
  [request |-> ctx.request, response |-> ctx.response, vars |-> ctx.vars]

\* history: the loop handled node with context ctx and left it as after
Visit(ctx, node, after) ==
  Append(ctx.trace, [node |-> node.id, type |-> node.type,
                     before |-> Snapshot(ctx), after |-> Snapshot(after),
                     logged |-> IF node.type = "component"
                                THEN componentLogs(node, ctx) ELSE <<>>])

\* a return statement of runFlow
Return(ctx, response, flowId, endedBy) ==
  [FlowResult(ctx.request, response, flowId, endedBy) EXCEPT !.trace = ctx.trace]

\* { ...a, ...b }
ObjectSpread(a, b) ==
  [k \in (DOMAIN a) \cup (DOMAIN b) |-> IF k \in DOMAIN b THEN b[k] ELSE a[k]]

\* if (result.terminate)
TerminatesNever(result) == FALSE

Terminates(result) == "terminate" \in DOMAIN result /\ result.terminate

\* a terminator that yields whatever response the context holds
EndsWithResponseAnyMode(node, ctx) == ctx.response # UndefinedResponse

\* terminatorNode.mode === 'end_with_response' && ctx.response
EndsWithResponse(node, ctx) ==
  node.mode = "end_with_response" /\ ctx.response # UndefinedResponse

\* the component case of runFlow: the context after the result is merged
MergeResult(ctx, result) ==
  LET live == IF "ctxVars" \in DOMAIN result THEN result.ctxVars ELSE ctx.vars
  IN [ctx EXCEPT
        !.request = IF "request" \in DOMAIN result THEN result.request ELSE @,
        !.response = IF "response" \in DOMAIN result THEN result.response ELSE @,
        !.vars = IF "vars" \in DOMAIN result
                 THEN ObjectSpread(live, result.vars) ELSE live]

\* the loop of runFlow from currentNodeId ("" = null) with context ctx
RECURSIVE Walk(_, _, _)
Walk(flow, currentNodeId, ctx) ==
  IF currentNodeId = "" \/ getNode(flow, currentNodeId) = 0
  THEN Return(ctx, ctx.response, flow.id, "walkEnded")
  ELSE
    LET node == flow.nodes[getNode(flow, currentNodeId)] IN
    CASE node.type = "entry" ->
           Walk(flow, getNextNodeId(flow, node.id),
                [ctx EXCEPT !.trace = Visit(ctx, node, ctx)])
      [] node.type = "component" ->
           LET result == executeComponentNode(node, ctx)
               merged == MergeResult(ctx, result)
               ctx1 == [merged EXCEPT !.trace = Visit(ctx, node, merged)]
           IN IF Terminates(result)
              THEN Return(ctx1, ctx1.response, flow.id, "terminate")
              ELSE Walk(flow, getNextNodeId(flow, node.id), ctx1)
      [] node.type = "condition" ->
           LET after == conditionEffect(node.expression, ctx)
           IN Walk(flow,
                   getNextNodeIdByLabel(flow, node.id,
                     IF evalCondition(node.expression, ctx) THEN "true" ELSE "false"),
                   [after EXCEPT !.trace = Visit(ctx, node, after)])
      [] OTHER ->
           LET ctx1 == [ctx EXCEPT !.trace = Visit(ctx, node, ctx)]
           IN IF EndsWithResponse(node, ctx)
              THEN Return(ctx1, ctx.response, flow.id, "terminator")
              ELSE Return(ctx1, UndefinedResponse, flow.id, "terminator")

\* one pass of the while loop of runFlow at currentNodeId with context ctx:
\* either the next currentNodeId ("" = null) or the value returned
WalkIteration(flow, currentNodeId, ctx) ==
  IF currentNodeId = "" \/ getNode(flow, currentNodeId) = 0
  THEN [returns |-> TRUE, next |-> "", ctx |-> ctx,
        result |-> FlowResult(ctx.request, ctx.response, flow.id, "walkEnded")]
  ELSE
    LET node == flow.nodes[getNode(flow, currentNodeId)]
        goes(next, ctx1) == [returns |-> FALSE, next |-> next, ctx |-> ctx1,
                             result |-> FlowResult(ctx1.request, ctx1.response,
                                                   flow.id, "notRun")]
        ends(ctx1, response, by) ==
          [returns |-> TRUE, next |-> "", ctx |-> ctx1,
           result |-> FlowResult(ctx1.request, response, flow.id, by)]
    IN
    CASE node.type = "entry" -> goes(getNextNodeId(flow, node.id), ctx)
      [] node.type = "component" ->
           LET result == executeComponentNode(node, ctx)
               merged == MergeResult(ctx, result)
           IN IF Terminates(result)
              THEN ends(merged, merged.response, "terminate")
              ELSE goes(getNextNodeId(flow, node.id), merged)
      [] node.type = "condition" ->
           goes(getNextNodeIdByLabel(flow, node.id,
                  IF evalCondition(node.expression, ctx) THEN "true" ELSE "false"),
                conditionEffect(node.expression, ctx))
      [] OTHER ->
           IF EndsWithResponse(node, ctx)
           THEN ends(ctx, ctx.response, "terminator")
           ELSE ends(ctx, UndefinedResponse, "terminator")

\* a context that starts out with a response
InitialContextWithResponse(request) ==
  [request |-> request,
   response |-> [statusCode |-> 200, body |-> "", src |-> "component"],
   vars |-> EmptyResult, trace |-> <<>>]

\* const ctx = { request: { ...request }, response: undefined, vars: {} }
InitialContext(request) ==
  [request |-> request, response |-> UndefinedResponse,
   vars |-> EmptyResult, trace |-> <<>>]

\* runFlow(flow, request)
runFlow(flow, request) ==
  IF findEntryNode(flow) = 0
  THEN FlowResult(request, UndefinedResponse, flow.id, "noEntry")
  ELSE Walk(flow, flow.nodes[findEntryNode(flow)].id, InitialContext(request))

\* the messages a run passed to its logger, in order
RECURSIVE Logged(_)
Logged(trace) ==
  IF trace = <<>> THEN <<>> ELSE Head(trace).logged \o Logged(Tail(trace))

\* the two destinations of log messages: the array debugFlow returns and the
\* console of the process
NoSinks == [logs |-> <<>>, console |-> <<>>]

\* processRequest's logger: (msg) => console.log(`[flow:${id}] ${msg}`)
LiveLogger(sinks, msgs) == [sinks EXCEPT !.console = @ \o msgs]

\* debugFlow's logger: (msg) => logs.push(msg)
DebugLogger(sinks, msgs) == [sinks EXCEPT !.logs = @ \o msgs]

\* debugFlow(flow, request)
debugFlow(flow, request) ==
  LET result == runFlow(flow, request)
  IN [result |-> result, sinks |-> DebugLogger(NoSinks, Logged(result.trace))]

\* findMatchingFlow(flows, request): index of the first match (0 = null)
findMatchingFlow(flows, request) ==
  SeqFind(flows, LAMBDA f : /\ findEntryNode(f) # 0
                            /\ matchesRule(request, f.nodes[findEntryNode(f)].match))

\* a store that hands out every flow
getEnabledUnfiltered(flows) == flows

\* FlowStore.getEnabled()
getEnabled(flows) == SelectSeq(flows, LAMBDA f : f.enabled)

\* processRequest(request)
processRequest(flows, request) ==
  LET enabled == getEnabled(flows)
      m == findMatchingFlow(enabled, request)
  IN IF m = 0
     THEN FlowResult(request, UndefinedResponse, None, "noFlow")
     ELSE runFlow(enabled[m], request)

\* ------------------------------------------------ FlowDefinition invariants
\* edges of a flow over the node ids of nodes
Outgoing(flow, id) == {i \in 1..Len(flow.edges) : flow.edges[i].from = id}

Incoming(flow, id) == {i \in 1..Len(flow.edges) : flow.edges[i].to = id}

\* the node ids reachable from the ids in from over at most n more edges
RECURSIVE ReachableFrom(_, _, _)
ReachableFrom(flow, from, n) ==
  IF n = 0 THEN from
  ELSE ReachableFrom(flow,
         from \cup {flow.edges[i].to : i \in {j \in 1..Len(flow.edges) :
                                                flow.edges[j].from \in from}},
         n - 1)

\* exactly one Entry with exactly one outgoing edge; every other node is
\* reachable from it; Terminators have no outgoing edge; a Component has at
\* most one incoming and one outgoing edge; a Condition has at most one
\* incoming edge and distinct labels on its outgoing edges
IsWellFormedFlow(flow) ==
  LET N == 1..Len(flow.nodes)
      entries == {i \in N : flow.nodes[i].type = "entry"}
  IN /\ Cardinality(entries) = 1
     /\ \A i \in entries : Cardinality(Outgoing(flow, flow.nodes[i].id)) = 1
     /\ \A i \in entries :
          {flow.nodes[j].id : j \in N} \subseteq
            ReachableFrom(flow, {flow.nodes[i].id}, Len(flow.nodes))
     /\ \A i \in N :
          LET n == flow.nodes[i] IN
          /\ n.type = "terminator" => Outgoing(flow, n.id) = {}
          /\ n.type = "component" =>
               /\ Cardinality(Incoming(flow, n.id)) <= 1
               /\ Cardinality(Outgoing(flow, n.id)) <= 1
          /\ n.type = "condition" =>
               /\ Cardinality(Incoming(flow, n.id)) <= 1
               /\ \A a, b \in Outgoing(flow, n.id) :
                    flow.edges[a].conditionLabel = flow.edges[b].conditionLabel
                      => a = b
     /\ \A i \in 1..Len(flow.edges) :
          /\ flow.edges[i].from \in {flow.nodes[j].id : j \in N}
          /\ flow.edges[i].to \in {flow.nodes[j].id : j \in N}

\* ---------------------------------------------------------- FlowStore data
EntryNode(id, methods, hostPatterns) ==
  [id |-> id, type |-> "entry",
   match |-> [methods |-> methods, hostPatterns |-> hostPatterns,
              pathPatterns |-> <<>>]]

\* an entry node whose rule has the three lists
EntryNodeWithPaths(id, methods, hostPatterns, pathPatterns) ==
  [EntryNode(id, methods, hostPatterns) EXCEPT !.match.pathPatterns = pathPatterns]

ComponentNode(id, componentId, config) ==
  [id |-> id, type |-> "component", componentId |-> componentId,
   config |-> config]

ConditionNode(id, expression) ==
  [id |-> id, type |-> "condition", expression |-> expression]

TerminatorNode(id, mode) == [id |-> id, type |-> "terminator", mode |-> mode]

Edge(from, to, label) == [from |-> from, to |-> to, conditionLabel |-> label]

Flow(id, enabled, nodes, edges) ==
  [id |-> id, enabled |-> enabled, nodes |-> nodes, edges |-> edges]

\* the flows held by the FlowStore, in the iteration order of its Map
FlowStoreFlows ==
  << Flow("f-disabled", FALSE,
          << EntryNode("e", <<>>, <<"*">>),
             ComponentNode("c", "mock-response", [statusCode |-> 500, body |-> "off"]) >>,
          << Edge("e", "c", "") >>),
     Flow("f-mock", TRUE,
          << EntryNode("e", <<"POST">>, <<>>),
             ComponentNode("c", "mock-response", [statusCode |-> 201, body |-> "ok"]) >>,
          << Edge("e", "c", "") >>),
     Flow("f-upstream", TRUE,
          << EntryNode("e", <<"PUT">>, <<"a.test">>),
             ComponentNode("c", "upstream-host",
                           [targetHost |-> "c.test", targetPort |-> 8080,
                            targetScheme |-> "http"]),
             TerminatorNode("t", "pass_through") >>,
          << Edge("e", "c", ""), Edge("c", "t", "") >>),
     Flow("f-respond", TRUE,
          << EntryNode("e", <<"DELETE">>, <<>>),
             ComponentNode("c", "script-respond", [statusCode |-> 299, body |-> "s"]),
             TerminatorNode("t", "end_with_response") >>,
          << Edge("e", "c", ""), Edge("c", "t", "") >>),
     Flow("f-deadend", TRUE,
          << EntryNode("e", <<"PATCH">>, <<>>),
             ComponentNode("c", "script-respond", [statusCode |-> 298, body |-> "d"]),
             ConditionNode("q", "!!ctx.response"),
             TerminatorNode("t", "pass_through") >>,
          << Edge("e", "c", ""), Edge("c", "q", ""), Edge("q", "t", "false") >>) >>

\* ---------------------------------------------------------------- FlowStore
MaxFlows == 2

\* createDefaultFlow(): the flow saved when the directory holds no flow
DefaultFlow ==
  Flow("default-flow", FALSE,
       << EntryNode("entry-1", <<"GET", "POST">>, <<"*">>),
          TerminatorNode("term-1", "pass_through") >>,
       << Edge("entry-1", "term-1", "") >>)

RespondConfig == [statusCode |-> 299, body |-> "s"]

MockConfig == [statusCode |-> 201, body |-> "ok"]

\* the flows the FLOW_SAVE handler is called with
FlowLibrary ==
  { DefaultFlow,
    \* Entry -> Terminator(end_with_response)
    Flow("direct-end", TRUE,
         << EntryNode("e", <<>>, <<>>), TerminatorNode("t", "end_with_response") >>,
         << Edge("e", "t", "") >>),
    \* a script installs a response, the terminator passes through
    Flow("respond-pass", TRUE,
         << EntryNode("e", <<>>, <<>>),
            ComponentNode("c", "script-respond", RespondConfig),
            TerminatorNode("t", "pass_through") >>,
         << Edge("e", "c", ""), Edge("c", "t", "") >>),
    \* a script installs a response, the terminator ends with it
    Flow("respond-end", TRUE,
         << EntryNode("e", <<>>, <<>>),
            ComponentNode("c", "script-respond", RespondConfig),
            TerminatorNode("t", "end_with_response") >>,
         << Edge("e", "c", ""), Edge("c", "t", "") >>),
    \* a script installs a response, mock-response terminates, a second
    \* script and a terminator follow
    Flow("mock-chain", TRUE,
         << EntryNode("e", <<"GET", "PUT">>, <<>>),
            ComponentNode("s", "script-respond", [statusCode |-> 298, body |-> "d"]),
            ComponentNode("m", "mock-response", MockConfig),
            ComponentNode("c", "script-respond", RespondConfig),
            TerminatorNode("t", "end_with_response") >>,
         << Edge("e", "s", ""), Edge("s", "m", ""), Edge("m", "c", ""),
            Edge("c", "t", "") >>),
    \* a condition with an unlabelled edge and a "false" edge only
    Flow("cond", TRUE,
         << EntryNode("e", <<>>, <<"*.test">>),
            ConditionNode("q", "ctx.request.method === 'PUT'"),
            ComponentNode("c", "script-respond", RespondConfig),
            TerminatorNode("t", "end_with_response") >>,
         << Edge("e", "q", ""), Edge("q", "c", ""), Edge("q", "t", "false"),
            Edge("c", "t", "") >>),
    \* components that are unknown or throw
    Flow("faulty", TRUE,
         << EntryNode("e", <<"GET", "POST">>, <<>>),
            ComponentNode("g", "ghost", EmptyResult),
            ComponentNode("b", "broken-builtin", EmptyResult),
            ComponentNode("x", "script-throw", EmptyResult),
            ComponentNode("v", "script-var-throw", EmptyResult),
            TerminatorNode("t", "pass_through") >>,
         << Edge("e", "g", ""), Edge("g", "b", ""), Edge("b", "x", ""),
            Edge("x", "v", ""), Edge("v", "t", "") >>),
    \* tag-request, then a script that writes into the tags and throws
    Flow("tagged", TRUE,
         << EntryNode("e", <<"GET", "POST">>, <<>>),
            ComponentNode("k", "tag-request", [tagKey |-> "env", tagValue |-> "dev"]),
            ComponentNode("y", "script-tag-throw", EmptyResult),
            TerminatorNode("t", "pass_through") >>,
         << Edge("e", "k", ""), Edge("k", "y", ""), Edge("y", "t", "") >>),
    \* globs
    Flow("globs", TRUE,
         << EntryNodeWithPaths("e", <<"GET">>, <<"A.TEST", "b?test">>, <<"/?">>),
            ComponentNode("m", "mock-response", MockConfig) >>,
         << Edge("e", "m", "") >>),
    Flow("stars", TRUE,
         << EntryNodeWithPaths("e", <<>>, <<"atest", "*">>, <<"/x/*", "*">>),
            ComponentNode("m", "mock-response", MockConfig) >>,
         << Edge("e", "m", "") >>) }

FlowIds == {f.id : f \in FlowLibrary}

\* index of the flow stored under id (0 = none)
FlowIndex(flows, id) == SeqFind(flows, LAMBDA f : f.id = id)

\* FlowStore.save(flow): this.flows.set(flow.id, flow) keeps the place of a
\* key the Map holds and appends a new one
FlowStoreSave(flows, flow) ==
  IF FlowIndex(flows, flow.id) # 0
  THEN [flows EXCEPT ![FlowIndex(flows, flow.id)] = flow]
  ELSE Append(flows, flow)

\* FlowStore.delete(id)
FlowStoreDelete(flows, id) == SelectSeq(flows, LAMBDA f : f.id # id)

\* FlowStore.toggle(id, enabled)
FlowStoreToggle(flows, id, enabled) ==
  IF FlowIndex(flows, id) = 0 THEN flows
  ELSE FlowStoreSave(flows, [flows[FlowIndex(flows, id)] EXCEPT !.enabled = enabled])

\* the requests processRequest is called with
FlowSamples ==
  { [id |-> 1, method |-> m, url |-> u, headers |-> [h \in {"host"} |-> "a.test"]] :
      m \in {"GET", "PUT"},
      u \in {Url("http", "a.test", 0, "/x"), Url("https", "b.test", 0, "/"),
             OriginForm("/x")} }

\* ------------------------------------------------------- response bodies
MaxBodyLen == 2

\* a Content-Type value is kept as the pieces it is written from; no word
\* the engine looks for lies across two pieces
ContentTypes ==
  { <<>>,
    <<"text/", "html">>,
    <<"text/", "plain", "; charset=utf-8">>,
    <<"application/", "json">>,
    <<"application/", "ld+", "json">>,
    <<"application/", "javascript">>,
    <<"image/", "svg+", "xml">>,
    <<"application/", "x-www-form-urlencoded">>,
    <<"image/", "png">>,
    <<"application/", "octet-stream">> }

\* the content-encoding header: None = absent
ContentEncodings == {None, "gzip", "identity"}

\* bytes: 97 is the letter a, 255 is no valid UTF-8
Bytes == {97, 255}

Bodies == UNION {[1..n -> Bytes] : n \in 0..MaxBodyLen}

\* ct.startsWith(word)
StartsWith(ct, word) == ct # <<>> /\ ct[1] = word

\* ct.includes(word)
Includes(ct, word) == \E i \in 1..Len(ct) : ct[i] = word

\* a check that looks at the content type only
isTextLikeAnyEncoding(ct, ce) ==
  \/ StartsWith(ct, "text/")
  \/ Includes(ct, "json")
  \/ Includes(ct, "javascript")
  \/ Includes(ct, "xml")
  \/ Includes(ct, "x-www-form-urlencoded")

\* const isTextLike = !ce && (ct.startsWith('text/') || ct.includes('json') || ...)
isTextLike(ct, ce) ==
  /\ ce = None
  /\ \/ StartsWith(ct, "text/")
     \/ Includes(ct, "json")
     \/ Includes(ct, "javascript")
     \/ Includes(ct, "xml")
     \/ Includes(ct, "x-www-form-urlencoded")

\* buffer.toString('utf-8'): an invalid byte becomes U+FFFD
ToStringUtf8(buffer) ==
  [i \in 1..Len(buffer) |-> IF buffer[i] = 255 THEN "U+FFFD" ELSE "a"]

\* what forwardRequest resolves with when the upstream response has ended
ForwardResult(ct, ce, buffer) ==
  [response |-> [statusCode |-> 200,
                 headers |-> [contentType |-> ct, contentEncoding |-> ce],
                 body |-> IF isTextLike(ct, ce)
                          THEN <<"string", ToStringUtf8(buffer)>>
                          ELSE <<"undefined", <<>> >>],
   rawBody |-> buffer]

\* sendResponse(clientRes, response, rawBody): the body bytes written; a
\* Buffer is truthy whatever its length
sendResponse(response, rawBody) == rawBody

\* ------------------------------------------------------------ script scope
MaxStatements == 2

\* the parameters of the wrapper function: (async function(config, ctx, console)
WrapperParameters == {"config", "ctx", "console"}

\* the locals of executeScriptComponent, in whose scope eval is called
RunnerLocals == {"sandbox", "scriptCode", "wrappedCode"}

\* the bindings of a CommonJS module
ModuleBindings == {"require", "module"}

\* properties of the global object of the main process
GlobalBindings == {"setTimeout", "setInterval", "fetch", "process"}

\* eval(wrappedCode) is a direct eval in the source; a build that rewrites
\* the call makes it an indirect one, which evaluates in the global scope
EvalKinds == {"direct", "indirect"}

\* what an identifier of the script text refers to: the sandbox object is
\* never a scope, its undefined properties hide nothing
Resolve(name, kind) ==
  IF name \in WrapperParameters THEN "parameter"
  ELSE IF kind = "direct" /\ name \in RunnerLocals \cup ModuleBindings THEN "host"
  ELSE IF name \in GlobalBindings THEN "host"
  ELSE "ReferenceError"

\* the names scripts of the model read, one per statement
ScriptNames ==
  WrapperParameters \cup {"sandbox", "require", "setTimeout", "setInterval",
                          "fetch", "notDefined"}

ScriptBodies ==
  UNION {[1..n -> ScriptNames] : n \in 1..MaxStatements}

\* the host objects a script got hold of before it returned or threw
RECURSIVE HostObjectsReached(_, _)
HostObjectsReached(names, kind) ==
  IF names = <<>> \/ Resolve(Head(names), kind) = "ReferenceError" THEN {}
  ELSE (IF Resolve(Head(names), kind) = "host" THEN {Head(names)} ELSE {})
         \cup HostObjectsReached(Tail(names), kind)

\* -------------------------------------------------------------- ConfigStore
\* DEFAULT_CONFIG; its capacity is the value of the constant MAX_RECORDS
DefaultProxyPort == 8888

DEFAULT_CONFIG ==
  [maxRequestRecords |-> MAX_RECORDS, proxyPort |-> DefaultProxyPort]

\* the capacities the settings form saves
ConfigCapacities == 1..(MAX_RECORDS + 1)

\* ConfigStore.saveConfig(partial): this.config = { ...this.config, ...partial }
saveConfig(current, partial) == ObjectSpread(current, partial)

\* ------------------------------------------------------------ ProxyEngine
\* hostnames and port texts of the CONNECT targets ("" = empty request
\* target, port 0 = no port or not a number)
ConnectHosts == {"a.test", ""}

ConnectPorts == {0, 443, 8443}

\* wrote: the status handleConnect's MITM branch has written to the client
\* (0 = nothing yet)
ClosedSocket ==
  [st |-> "closed", kind |-> "http", host |-> "", tport |-> 0, mitm |-> 0,
   srv |-> 0, carried |-> FALSE, wrote |-> 0]

NoServer == [st |-> "none", stops |-> 0]

NoMitmServer == [st |-> "none", host |-> "", targetPort |-> 0, client |-> 0]

\* least id of an unused object (0 when every id is in use)
FreeId(objs) ==
  LET free == {i \in DOMAIN objs : objs[i].st = "none"}
  IN IF free = {} THEN 0 ELSE CHOOSE i \in free : \A j \in free : i <= j

\* start(): nothing when running; else a new http.Server replaces
\* this.server and listen(port) is issued
Start ==
  /\ ~running
  /\ LET s == FreeId(servers) IN
       /\ s # 0
       /\ server' = {s}
       /\ servers' = [servers EXCEPT ![s] = [st |-> "binding", stops |-> 0]]
  /\ UNCHANGED <<running, httpsMitmEnabled, httpsMitmServers, mitmServers,
                 connections, sockets>>

\* a server holds the port from its bind until it is closed
HoldsPort(s) == servers[s].st \in {"listening", "closing"}

\* the listen callback of start(): the port was free for this server
StartListening(s) ==
  /\ servers[s].st = "binding"
  /\ \A t \in ServerIds \ {s} : ~HoldsPort(t)
  /\ servers' = [servers EXCEPT ![s].st = "listening"]
  /\ running' = TRUE
  /\ UNCHANGED <<server, httpsMitmEnabled, httpsMitmServers, mitmServers,
                 connections, sockets>>

\* the 'error' handler of start(): the promise rejects, the server object is
\* left in this.server until the next start() replaces it
StartError(s) ==
  /\ servers[s].st = "binding"
  /\ servers' = [servers EXCEPT ![s] = NoServer]
  /\ server' = server
  /\ UNCHANGED <<running, httpsMitmEnabled, httpsMitmServers, mitmServers,
                 connections, sockets>>

\* the 'connection' handler: the socket is tracked
ClientConnect(c) ==
  /\ sockets[c].st = "closed"
  /\ \E s \in ServerIds :
       /\ servers[s].st = "listening"
       /\ sockets' = [sockets EXCEPT ![c] = [ClosedSocket EXCEPT !.st = "open", !.srv = s]]
  /\ connections' = connections \cup {c}
  /\ UNCHANGED <<running, server, servers, httpsMitmEnabled, httpsMitmServers,
                 mitmServers>>

\* a pending MITM setup loses its client when the client socket is gone
UnlinkClient(c) ==
  [m \in MitmIds |-> IF mitmServers[m].client = c
                     THEN [mitmServers[m] EXCEPT !.client = 0]
                     ELSE mitmServers[m]]

\* the socket 'close' handler: the socket is no longer tracked.  It runs
\* when the client closes an open socket and after destroy() or end().
SocketClose(c) ==
  /\ sockets[c].st \in {"open", "destroyed"}
  /\ sockets' = [sockets EXCEPT ![c] = ClosedSocket]
  /\ connections' = connections \ {c}
  /\ mitmServers' = UnlinkClient(c)
  /\ UNCHANGED <<running, server, servers, httpsMitmEnabled, httpsMitmServers>>

\* setHttpsMitmEnabled(enabled)
SetHttpsMitmEnabled(enabled) ==
  /\ httpsMitmEnabled' = enabled
  /\ UNCHANGED <<running, server, servers, httpsMitmServers, mitmServers,
                 connections, sockets>>

\* parseInt(port, 10) || 443
ParseTargetPort(p) == IF p = 0 THEN HttpsPort ELSE p

\* a handleConnect that does not read the MITM switch
UseRawTunnelAlwaysMitm(hostname) == hostname = ""

\* the test of handleConnect that selects the raw tunnel
UseRawTunnel(hostname) == hostname = "" \/ ~httpsMitmEnabled

\* getOrCreateHttpsMitmPort: this.httpsMitmServers.get(hostname), 0 = none
ExistingMitm(hostname, targetPort) ==
  IF hostname \in DOMAIN httpsMitmServers THEN httpsMitmServers[hostname] ELSE 0

\* handleConnect(req, clientSocket, head), up to its first suspension.
\* Raw tunnel: net.connect to the target; its callbacks only write to the two
\* sockets.  MITM with a listener in the table: the client is spliced to it.
\* MITM without: getCertificateForHost, createServer and listen(0) are
\* issued and the setup waits for the listen callback; a throw of
\* getCertificateForHost writes 500 and ends the client socket.
HandleConnect(c, hostname, p, outcome) ==
  LET targetPort == ParseTargetPort(p) IN
  /\ sockets[c].st = "open"
  /\ sockets[c].kind = "http"
  /\ IF UseRawTunnel(hostname)
     THEN /\ sockets' = [sockets EXCEPT ![c].kind = "raw", ![c].host = hostname,
                                        ![c].tport = targetPort]
          /\ UNCHANGED <<mitmServers, caVars>>
     ELSE IF ExistingMitm(hostname, targetPort) # 0
     THEN /\ sockets' = [sockets EXCEPT ![c].kind = "mitm", ![c].host = hostname,
                                        ![c].tport = targetPort,
                                        ![c].mitm = ExistingMitm(hostname, targetPort),
                                        ![c].wrote = 200]
          /\ UNCHANGED <<mitmServers, caVars>>
     ELSE /\ GetCertificateForHostEffect(hostname, outcome)
          /\ IF caReturned' = {}
             THEN /\ sockets' = [sockets EXCEPT ![c].st = "destroyed",
                                                ![c].wrote = 500]
                  /\ UNCHANGED mitmServers
             ELSE LET m == FreeId(mitmServers) IN
                  /\ m # 0
                  /\ mitmServers' = [mitmServers EXCEPT ![m] =
                        [st |-> "binding", host |-> hostname,
                         targetPort |-> targetPort, client |-> c]]
                  /\ sockets' = [sockets EXCEPT ![c].kind = "setup",
                                                ![c].host = hostname,
                                                ![c].tport = targetPort]
  /\ UNCHANGED <<running, server, servers, httpsMitmEnabled, httpsMitmServers,
                 connections>>

\* the listen(0) callback of getOrCreateHttpsMitmPort and the rest of the
\* MITM branch: the listener enters the table, 200 is written and the client
\* is spliced to the listener's port
MitmListening(m) ==
  /\ mitmServers[m].st = "binding"
  /\ mitmServers' = [mitmServers EXCEPT ![m].st = "listening", ![m].client = 0]
  /\ httpsMitmServers' =
       [h \in (DOMAIN httpsMitmServers) \cup {mitmServers[m].host} |->
          IF h = mitmServers[m].host THEN m ELSE httpsMitmServers[h]]
  /\ LET c == mitmServers[m].client IN
       sockets' = IF c # 0 /\ sockets[c].st = "open"
                  THEN [sockets EXCEPT ![c].kind = "mitm", ![c].mitm = m,
                                       ![c].wrote = 200]
                  ELSE sockets
  /\ UNCHANGED <<running, server, servers, httpsMitmEnabled, connections>>

\* a listener that is in the table before its listen(0) has called back
MitmListenErrorAfterSet(m) ==
  /\ mitmServers[m].st = "binding"
  /\ mitmServers' = [mitmServers EXCEPT ![m] = NoMitmServer]
  /\ httpsMitmServers' =
       [h \in (DOMAIN httpsMitmServers) \cup {mitmServers[m].host} |->
          IF h = mitmServers[m].host THEN m ELSE httpsMitmServers[h]]
  /\ LET c == mitmServers[m].client IN
       sockets' = IF c # 0 /\ sockets[c].st = "open"
                  THEN [sockets EXCEPT ![c].st = "destroyed", ![c].wrote = 500]
                  ELSE sockets
  /\ UNCHANGED <<running, server, servers, httpsMitmEnabled, connections>>

\* the 'error' handler of the MITM listener during setup: the setup rejects,
\* 500 is written and the client socket is ended
MitmListenError(m) ==
  /\ mitmServers[m].st = "binding"
  /\ mitmServers' = [mitmServers EXCEPT ![m] = NoMitmServer]
  /\ LET c == mitmServers[m].client IN
       sockets' = IF c # 0 /\ sockets[c].st = "open"
                  THEN [sockets EXCEPT ![c].st = "destroyed", ![c].wrote = 500]
                  ELSE sockets
  /\ UNCHANGED <<running, server, servers, httpsMitmEnabled, httpsMitmServers,
                 connections>>

\* the 'error' handler of the upstream socket of a raw tunnel, or of the
\* socket to the MITM listener: clientSocket.end()
TunnelError(c) ==
  /\ sockets[c].st = "open"
  /\ sockets[c].kind \in {"raw", "mitm"}
  /\ sockets' = [sockets EXCEPT ![c].st = "destroyed"]
  /\ UNCHANGED <<running, server, servers, httpsMitmEnabled, httpsMitmServers,
                 mitmServers, connections>>

\* bytes sent by the client inside a raw tunnel: piped to the upstream
\* socket, no handler of the engine runs
RawTunnelTraffic(c) ==
  /\ sockets[c].st = "open"
  /\ sockets[c].kind = "raw"
  /\ ~sockets[c].carried
  /\ sockets' = [sockets EXCEPT ![c].carried = TRUE]
  /\ UNCHANGED <<running, server, servers, httpsMitmEnabled, httpsMitmServers,
                 mitmServers, connections>>

\* a stop() that leaves the tracked sockets alone
DestroyNothing == sockets

\* for (const socket of this.connections) socket.destroy()
DestroyConnections ==
  [c \in SocketIds |->
     IF c \in connections /\ sockets[c].st = "open"
     THEN [sockets[c] EXCEPT !.st = "destroyed"]
     ELSE sockets[c]]

\* stop(): nothing when there is no server or the engine is not running;
\* else every tracked socket is destroyed, the set is cleared and
\* server.close(callback) is issued
Stop ==
  IF server = {} \/ ~running
  THEN UNCHANGED engineVars
  ELSE
    /\ \A s \in server : servers[s].stops < MaxPendingStops
    /\ sockets' = DestroyConnections
    /\ connections' = {}
    /\ servers' = [s \in ServerIds |->
                     IF s \in server
                     THEN [st |-> IF HoldsPort(s) THEN "closing"
                                  ELSE "closingUnbound",
                           stops |-> servers[s].stops + 1]
                     ELSE servers[s]]
    /\ UNCHANGED <<running, server, httpsMitmEnabled, httpsMitmServers,
                   mitmServers>>

\* the callback of server.close(): it runs once every connection of the
\* server has closed; the MITM listeners of the table are closed, the table
\* is cleared and every waiting stop() resolves
StopClosed(s) ==
  /\ servers[s].st \in {"closing", "closingUnbound"}
  /\ \A c \in SocketIds : sockets[c].st # "closed" => sockets[c].srv # s
  /\ running' = FALSE
  /\ server' = {}
  /\ servers' = [servers EXCEPT ![s] = NoServer]
  /\ mitmServers' = [m \in MitmIds |->
                       IF \E h \in DOMAIN httpsMitmServers : httpsMitmServers[h] = m
                       THEN NoMitmServer ELSE mitmServers[m]]
  /\ httpsMitmServers' = [h \in {} |-> 0]
  /\ UNCHANGED <<httpsMitmEnabled, connections, sockets>>

EngineInit ==
  /\ running = FALSE
  /\ server = {}
  /\ servers = [s \in ServerIds |-> NoServer]
  /\ httpsMitmEnabled \in BOOLEAN
  /\ httpsMitmServers = [h \in {} |-> 0]
  /\ mitmServers = [m \in MitmIds |-> NoMitmServer]
  /\ connections = {}
  /\ sockets = [c \in SocketIds |-> ClosedSocket]

\* ------------------------------------------------- ProxyEngine: requests
\* methods of the requests a client sends inside a MITM tunnel
MitmMethods == {"GET", "POST", "PUT"}

\* method and request-target of the requests a client sends to the plain
\* listener: absolute form, or origin form with the authority only in the
\* Host header
PlainInputs ==
  {<<"GET", Url("http", "a.test", 8080, "/x")>>,
   <<"GET", Url("http", "b.test", 80, "/x")>>,
   <<"GET", OriginForm("/x")>>,
   <<"POST", Url("http", "a.test", 0, "/x")>>,
   <<"PUT", Url("http", "a.test", 8080, "/x")>>,
   <<"DELETE", Url("http", "a.test", 0, "/x")>>,
   <<"PATCH", Url("http", "a.test", 0, "/x")>>}

NoRequest == [id |-> 0]

NoUpstream == [host |-> "", port |-> 0]

NoFlowResult == [endedBy |-> "notRun"]

IdleReq ==
  [pc |-> "idle", via |-> "none", request |-> NoRequest,
   flowResult |-> NoFlowResult, upstream |-> NoUpstream,
   clientRes |-> UndefinedResponse, writes |-> <<>>]

\* uuidv4(): request ids are handed out in order, each once
NextRequestId ==
  LET idle == {r \in ReqIds : reqs[r].pc = "idle"}
  IN IF idle = {} THEN 0 ELSE CHOOSE r \in idle : \A q \in idle : r <= q

\* the 502 written by the catch block of handleRequest / handleHttpsRequest
ProxyError == [statusCode |-> 502, body |-> "Proxy Error", src |-> "engine"]

\* buildHttpRequest(id, req): the request-target is taken as it is
buildHttpRequest(id, method, target, hostHeader) ==
  [id |-> id, method |-> method, url |-> target,
   headers |-> [h \in {"host"} |-> hostHeader]]

\* buildHttpsHttpRequest(id, req, hostname, targetPort)
buildHttpsHttpRequest(id, method, path, hostHeader, hostname, targetPort) ==
  [id |-> id, method |-> method,
   url |-> Url("https", hostname,
               IF targetPort # 0 /\ targetPort # HttpsPort THEN targetPort ELSE 0,
               path),
   headers |-> [h \in {"host"} |-> hostHeader]]

\* the record of the first add: { id, request }
CreateRecord(httpRequest) == [id |-> httpRequest.id, request |-> httpRequest]

\* a handler whose record takes over the request the flow returned
CompleteRecordOfFlow(httpRequest, response, flowResult) ==
  [id |-> httpRequest.id, request |-> flowResult.request, response |-> response,
   durationMs |-> "elapsed", matchedFlowId |-> flowResult.matchedFlowId]

\* the record after record.response, durationMs and matchedFlowId are set
CompleteRecord(httpRequest, response, flowResult) ==
  [id |-> httpRequest.id, request |-> httpRequest, response |-> response,
   durationMs |-> "elapsed", matchedFlowId |-> flowResult.matchedFlowId]

\* handleRequest / handleHttpsRequest from the built request to the await of
\* processRequest: the record is created and added
Arrive(r, via, httpRequest) ==
  /\ r # 0
  /\ StoreAdd(CreateRecord(httpRequest))
  /\ reqs' = [reqs EXCEPT ![r] =
       [IdleReq EXCEPT !.pc = "flow", !.via = via, !.request = httpRequest,
                       !.writes = <<CreateRecord(httpRequest)>>]]

\* handleRequest(clientReq, clientRes) on a plain client connection
HandleRequest(c, method, target) ==
  /\ sockets[c].st = "open"
  /\ sockets[c].kind = "http"
  /\ Arrive(NextRequestId, "plain",
            buildHttpRequest(NextRequestId, method, target,
               IF IsAbsoluteUrl(target) THEN <<target.host, target.port>>
               ELSE <<"a.test", 0>>))

\* handleHttpsRequest(hostname, targetPort, clientReq, clientRes): a request
\* decrypted by the MITM listener the client socket is spliced to; hostname
\* and targetPort are the ones the listener was created with
HandleHttpsRequest(c, method) ==
  /\ sockets[c].st = "open"
  /\ sockets[c].kind = "mitm"
  /\ LET m == sockets[c].mitm IN
       Arrive(NextRequestId, "mitm",
              buildHttpsHttpRequest(NextRequestId, method, "/x",
                 <<sockets[c].host, sockets[c].tport>>,
                 mitmServers[m].host, mitmServers[m].targetPort))

\* a handler that forwards the request as it arrived
ForwardedRequestOriginal(httpRequest, flowResult) == httpRequest

\* the request handed to new URL(...) and to forwardRequest is the flow's
ForwardedRequest(httpRequest, flowResult) == flowResult.request

\* a forwardRequest that takes every target for plain http
UpstreamOfHttpOnly(url) ==
  LET targetUrl == ParseURL(url)
  IN [host |-> targetUrl.hostname,
      port |-> IF targetUrl.port # 0 THEN targetUrl.port ELSE HttpPort]

\* forwardRequest: the connection opened for targetUrl
UpstreamOf(url) ==
  LET targetUrl == ParseURL(url)
  IN [host |-> targetUrl.hostname,
      port |-> IF targetUrl.port # 0 THEN targetUrl.port
               ELSE DefaultPort(targetUrl.protocol)]

\* a handler that forwards whatever the flow returned
HasFlowResponseNever(flowResult) == FALSE

\* if (flowResult.response): the engine answers from the flow result
HasFlowResponse(flowResult) == flowResult.response # UndefinedResponse

\* the continuation after await processRequest: a flow response is recorded
\* and sent; else the URL of the flow's request is parsed (a throw gives the
\* 502 of the catch block) and forwardRequest opens the upstream connection
FlowDone(r) ==
  /\ reqs[r].pc = "flow"
  /\ LET httpRequest == reqs[r].request
         flowResult == processRequest(FlowStoreFlows, httpRequest)
     IN IF HasFlowResponse(flowResult)
        THEN LET record == CompleteRecord(httpRequest, flowResult.response, flowResult)
             IN /\ StoreAdd(record)
                /\ reqs' = [reqs EXCEPT ![r].pc = "done",
                                        ![r].flowResult = flowResult,
                                        ![r].clientRes = flowResult.response,
                                        ![r].writes = Append(@, record)]
        ELSE IF ~IsAbsoluteUrl(ForwardedRequest(httpRequest, flowResult).url)
        THEN /\ reqs' = [reqs EXCEPT ![r].pc = "done",
                                     ![r].flowResult = flowResult,
                                     ![r].clientRes = ProxyError]
             /\ UNCHANGED storeVars
        ELSE /\ reqs' = [reqs EXCEPT ![r].pc = "forward",
                                     ![r].flowResult = flowResult,
                                     ![r].upstream =
                                        UpstreamOf(ForwardedRequest(httpRequest, flowResult).url)]
             /\ UNCHANGED storeVars

\* the response forwardRequest resolves with; from and answering are history
\* labels: the connection it was read from and the request it answers
UpstreamResponseOf(upstream, request) ==
  [statusCode |-> 200, body |-> "upstream", src |-> "upstream",
   from |-> upstream, answering |-> request]

\* forwardRequest resolves: the record is completed and the response sent
UpstreamResponse(r) ==
  /\ reqs[r].pc = "forward"
  /\ LET response == UpstreamResponseOf(reqs[r].upstream,
                         ForwardedRequest(reqs[r].request, reqs[r].flowResult))
         record == CompleteRecord(reqs[r].request, response, reqs[r].flowResult)
     IN /\ StoreAdd(record)
        /\ reqs' = [reqs EXCEPT ![r].pc = "done",
                                ![r].clientRes = response,
                                ![r].writes = Append(@, record)]

\* forwardRequest rejects: the catch block writes 502
UpstreamFailure(r) ==
  /\ reqs[r].pc = "forward"
  /\ reqs' = [reqs EXCEPT ![r].pc = "done", ![r].clientRes = ProxyError]
  /\ UNCHANGED storeVars

ReqInit == reqs = [r \in ReqIds |-> IdleReq]

StoreInit ==
  /\ records = <<>>
  /\ recordMap = [i \in {} |-> None]
  /\ insertOrder = <<>>
  /\ lastEvicted = {}

\* new FlowStore() on an empty directory: loadFlows saves the default flow
FlowInit ==
  /\ flowStore = FlowStoreSave(<<>>, DefaultFlow)
  /\ sample = NoRequest
  /\ processed = NoFlowResult

\* new ConfigStore() without a config.json
ConfigInit == appConfig = DEFAULT_CONFIG

NoCall == [fn |-> "none"]

\* the stores, the certificate manager and the engine after construction
InitStores ==
  /\ StoreInit /\ CAInit /\ EngineInit /\ ReqInit /\ CompInit /\ FlowInit
  /\ ConfigInit

Init == InitStores /\ call = NoCall

otherThanStore == <<caVars, engineVars, reqs, compVars, flowVars, restVars>>

otherThanCA == <<storeVars, engineVars, reqs, compVars, flowVars, restVars>>

AddCreate == (\E rec \in CreateArgs : StoreAdd(rec)) /\ UNCHANGED otherThanStore

AddUpdate == (\E rec \in UpdateArgs : StoreAdd(rec)) /\ UNCHANGED otherThanStore

Clear == StoreClear /\ UNCHANGED otherThanStore

NextStore == AddCreate \/ AddUpdate \/ Clear

SpecStore == Init /\ [][NextStore]_vars

CAInitialize == InitCA /\ UNCHANGED otherThanCA

CACertificateForHost == GetCertificateForHost /\ UNCHANGED otherThanCA

CAImport == ImportCAFromPem /\ UNCHANGED otherThanCA

\* getCertificateForHost(hostname), the hostname kept in call
CACertificateForHostCall ==
  /\ \E hostname \in Hosts, outcome \in WriteOutcomes :
       /\ GetCertificateForHostEffect(hostname, outcome)
       /\ call' = [fn |-> "getCertificateForHost", hostname |-> hostname]
  /\ UNCHANGED <<storeVars, engineVars, reqs, compVars, flowVars, appConfig>>

notCA == <<storeVars, engineVars, reqs, compVars, flowVars, appConfig>>

\* initCA() as the CERT_STATUS, CERT_GENERATE and CERT_INSTALL handlers call it
CAInitializeCall ==
  /\ InitCA
  /\ call' = [fn |-> "initCA"]
  /\ UNCHANGED notCA

\* CERT_IMPORT: importCAFromPem(payload.caKeyPem, payload.caCertPem) with the
\* key and the certificate of one pair, or with text that does not parse
CAImportCall ==
  /\ \E keyPem \in ImportedRoots \cup {BadPem}, outcome \in WriteOutcomes :
     \E certPem \in {keyPem, BadPem} :
       /\ ImportCAFromPemEffect(keyPem, certPem, outcome)
       /\ call' = [fn |-> "importCAFromPem", caKeyPem |-> keyPem,
                   caCertPem |-> certPem]
  /\ UNCHANGED notCA

NextLeaf == CAInitializeCall \/ CACertificateForHostCall \/ CAImportCall

SpecLeaf == Init /\ [][NextLeaf]_vars

NextCA == CAInitialize \/ CACertificateForHost \/ CAImport

\* SpecCache: getCertificateForHost calls that overlap.  A call that finds
\* no root loaded runs initCA and is suspended at its await; the cache is
\* read and written when it resumes.  overlap is history: a call began while
\* another was suspended.
MaxCalls == 2

CallIds == 1..MaxCalls

NoCertCall == [st |-> "none", hostname |-> "", returned |-> {}]

CacheInit ==
  /\ InitStores
  /\ call = [fn |-> "getCertificateForHost",
             pending |-> [i \in CallIds |-> NoCertCall], overlap |-> FALSE]

\* getCertificateForHost(hostname) up to its await, or to its return when a
\* root is loaded
CertCallBegins ==
  \E i \in CallIds, hostname \in Hosts, outcome \in WriteOutcomes :
    /\ call.pending[i].st \in {"none", "returned", "rejected"}
    /\ IF caKey = NullRoot \/ caCert = NullRoot
       THEN /\ InitCAEffect(outcome)
            /\ UNCHANGED <<certCache, mintCount, caReturned>>
            /\ call' = [call EXCEPT
                 !.pending[i] = [st |-> IF InitCAThrows(outcome)
                                        THEN "rejected" ELSE "awaiting",
                                 hostname |-> hostname, returned |-> {}],
                 !.overlap = @ \/ \E j \in CallIds \ {i} :
                                     call.pending[j].st = "awaiting"]
       ELSE /\ LookupOrMint(hostname, caKey, caCert)
            /\ UNCHANGED <<caKey, caCert, diskKey, diskCert, genCount>>
            /\ call' = [call EXCEPT
                 !.pending[i] = [st |-> "returned", hostname |-> hostname,
                                 returned |-> caReturned'],
                 !.overlap = @ \/ \E j \in CallIds \ {i} :
                                     call.pending[j].st = "awaiting"]
    /\ UNCHANGED notCA

\* the call resumes after await this.initCA(): cache lookup, mint on a miss
CertCallResumes ==
  \E i \in CallIds :
    /\ call.pending[i].st = "awaiting"
    /\ LookupOrMint(call.pending[i].hostname, caKey, caCert)
    /\ UNCHANGED <<caKey, caCert, diskKey, diskCert, genCount>>
    /\ call' = [call EXCEPT !.pending[i].st = "returned",
                            !.pending[i].returned = caReturned']
    /\ UNCHANGED notCA

\* importCAFromPem with a well-formed pair
CacheImport ==
  /\ \E root \in ImportedRoots : ImportCAFromPemEffect(root, root, "ok")
  /\ UNCHANGED <<notCA, call>>

NextCache == CertCallBegins \/ CertCallResumes \/ CacheImport

SpecCache == CacheInit /\ [][NextCache]_vars

SpecCA == Init /\ [][NextCA]_vars

\* -------------------------------------------------- the config store runs
\* CONFIG_SAVE with a capacity; the handler acts on the engine only for the
\* keys httpsMitmEnabled and systemProxyEnabled
ConfigSave ==
  /\ \E n \in ConfigCapacities : appConfig' = saveConfig(appConfig, [maxRequestRecords |-> n])
  /\ UNCHANGED <<storeVars, caVars, engineVars, reqs, compVars, flowVars, call>>

NextConfig == AddCreate \/ AddUpdate \/ ConfigSave

SpecConfig == Init /\ [][NextConfig]_vars

\* ---------------------------------------------- the component store runs
otherThanComponents == <<storeVars, caVars, engineVars, reqs, flowVars, restVars>>

ComponentSave ==
  /\ \E component \in ComponentArgs, outcome \in {"ok", "fail"} :
       ComponentStoreSave(component, outcome)
  /\ UNCHANGED otherThanComponents

ComponentDelete ==
  /\ \E id \in {"mock-response", "my-script", "script-respond"} :
       ComponentStoreDelete(id)
  /\ UNCHANGED otherThanComponents

ComponentRelaunch == ComponentStoreConstruct /\ UNCHANGED otherThanComponents

NextComponents == ComponentSave \/ ComponentDelete \/ ComponentRelaunch

SpecComponents == Init /\ [][NextComponents]_vars

\* ------------------------------------------------------ the flow engine runs
otherThanFlows == <<storeVars, caVars, engineVars, reqs, compVars, restVars>>

\* FLOW_SAVE
FlowSave ==
  /\ \E flow \in FlowLibrary :
       /\ Len(FlowStoreSave(flowStore, flow)) <= MaxFlows
       /\ flowStore' = FlowStoreSave(flowStore, flow)
  /\ sample' = NoRequest
  /\ processed' = NoFlowResult
  /\ UNCHANGED otherThanFlows

\* FLOW_DELETE
FlowDelete ==
  /\ \E id \in FlowIds : flowStore' = FlowStoreDelete(flowStore, id)
  /\ sample' = NoRequest
  /\ processed' = NoFlowResult
  /\ UNCHANGED otherThanFlows

\* FLOW_TOGGLE
FlowToggle ==
  /\ \E id \in FlowIds, enabled \in BOOLEAN :
       flowStore' = FlowStoreToggle(flowStore, id, enabled)
  /\ sample' = NoRequest
  /\ processed' = NoFlowResult
  /\ UNCHANGED otherThanFlows

\* flowEngine.processRequest(request)
ProcessSample ==
  /\ \E request \in FlowSamples :
       /\ sample' = request
       /\ processed' = processRequest(flowStore, request)
  /\ UNCHANGED flowStore
  /\ UNCHANGED otherThanFlows

NextFlow == FlowSave \/ FlowDelete \/ FlowToggle \/ ProcessSample

SpecFlow == Init /\ [][NextFlow]_vars

\* --------------------------------------------------------- flows are walked
\* the nodes of the flows that are walked: an entry, a delay component, a
\* condition on the method and a terminator
WalkNodes ==
  <<EntryNode("n1", <<>>, <<>>),
    ComponentNode("n2", "delay", [ms |-> 0]),
    ConditionNode("n3", "ctx.request.method === 'PUT'"),
    TerminatorNode("n4", "pass_through")>>

WalkNodeIds == {"n1", "n2", "n3", "n4"}

\* at most one edge from a node under a label ("" as target = no edge)
OptionalEdge(from, to, label) ==
  IF to = "" THEN <<>> ELSE <<Edge(from, to, label)>>

\* every flow over WalkNodes that satisfies the FlowDefinition invariants
WellFormedFlows ==
  { f \in { Flow("walked", TRUE, WalkNodes,
                 OptionalEdge("n1", e, "") \o OptionalEdge("n2", c, "")
                   \o OptionalEdge("n3", t, "true") \o OptionalEdge("n3", x, "false")) :
             e \in WalkNodeIds, c \in WalkNodeIds \cup {""},
             t \in WalkNodeIds \cup {""}, x \in WalkNodeIds \cup {""} } :
      IsWellFormedFlow(f) }

WalkRequests ==
  { [id |-> 1, method |-> m, url |-> Url("http", "a.test", 0, "/x"),
     headers |-> [h \in {"host"} |-> "a.test"]] : m \in {"GET", "PUT"} }

\* runFlow(flow, request) has found the entry node and is about to enter
\* its loop
WalkInit ==
  /\ InitStores
  /\ call \in {[fn |-> "runFlow", flow |-> f, request |-> r, pc |-> "loop",
                currentNodeId |-> f.nodes[findEntryNode(f)].id,
                ctx |-> InitialContext(r)] :
                f \in WellFormedFlows, r \in WalkRequests}

\* one pass of the loop, or the return that ends the call
WalkStep ==
  /\ call.fn = "runFlow"
  /\ call.pc = "loop"
  /\ LET it == WalkIteration(call.flow, call.currentNodeId, call.ctx)
     IN call' = IF it.returns
                THEN [fn |-> "runFlow", flow |-> call.flow, request |-> call.request,
                      pc |-> "returned", currentNodeId |-> call.currentNodeId,
                      ctx |-> it.ctx, result |-> it.result]
                ELSE [call EXCEPT !.currentNodeId = it.next, !.ctx = it.ctx]
  /\ UNCHANGED <<storeVars, caVars, engineVars, reqs, compVars, flowVars, appConfig>>

NextWalk == WalkStep

SpecWalk == WalkInit /\ [][NextWalk]_vars

\* the loop keeps running: nothing in runFlow waits for an event that may
\* not come (the await of a delay component resolves)
LiveSpecWalk == SpecWalk /\ WF_vars(WalkStep)

\* ------------------------------------------------------------ scripts run
\* executeScriptComponent is called with a script that reads some names
ScriptInit ==
  /\ InitStores
  /\ call \in {[fn |-> "executeScriptComponent", names |-> names, eval |-> kind,
                pc |-> "ready", reached |-> {}] :
                names \in ScriptBodies, kind \in EvalKinds}

\* const fn = eval(wrappedCode); await fn(sandbox.config, sandbox.ctx, sandbox.console)
ScriptRuns ==
  /\ call.fn = "executeScriptComponent"
  /\ call.pc = "ready"
  /\ call' = [call EXCEPT !.pc = "done",
                          !.reached = HostObjectsReached(call.names, call.eval)]
  /\ UNCHANGED <<storeVars, caVars, engineVars, reqs, compVars, flowVars, appConfig>>

NextSandbox == ScriptRuns

SpecSandbox == ScriptInit /\ [][NextSandbox]_vars

\* ----------------------------------------------------------- scripts throw
\* what the scripts of this section throw: new Error(message), a string,
\* or null
ThrownValues ==
  {[kind |-> "Error", message |-> "boom"], [kind |-> "Error", message |-> ""],
   [kind |-> "string", text |-> "boom"], [kind |-> "null"]}

\* the console.log calls a script makes before it throws
ScriptSays == {<<>>, <<"step">>, <<"step", "step">>}

\* the TypeError of reading a property of null
TypeErrorOfNull ==
  [kind |-> "Error", message |-> "Cannot read properties of null"]

\* (error as Error).message: the message of an Error, undefined for a
\* string, a TypeError for null
MessageOf(error) ==
  CASE error.kind = "Error" -> [throws |-> FALSE, message |-> error.message]
    [] error.kind = "string" -> [throws |-> FALSE, message |-> None]
    [] OTHER -> [throws |-> TRUE, error |-> TypeErrorOfNull]

\* console.log of the sandbox: ctx.log(args.map(String).join(' '))
SaidLogs(says) == [i \in 1..Len(says) |-> [tag |-> "", text |-> says[i]]]

\* the catch block of executeScriptComponent: ctx.log(`[Script Error]
\* ${(error as Error).message}`), then throw error
executeScriptComponentCatch(error, logs) ==
  IF MessageOf(error).throws
  THEN [logs |-> logs, thrown |-> MessageOf(error).error]
  ELSE [logs |-> Append(logs, [tag |-> "[Script Error]",
                               text |-> MessageOf(error).message]),
        thrown |-> error]

\* executeScriptComponent for a script that logs says and throws thrown
executeThrowingScript(says, thrown) ==
  executeScriptComponentCatch(thrown, SaidLogs(says))

\* debugScriptComponent(scriptCode, config, ctx) for such a script: the
\* catch returns { result: {}, logs, error: (error as Error).message }
debugScriptComponent(says, thrown) ==
  LET run == executeThrowingScript(says, thrown)
  IN IF MessageOf(run.thrown).throws
     THEN [threw |-> TRUE, result |-> EmptyResult, logs |-> run.logs,
           error |-> None]
     ELSE [threw |-> FALSE, result |-> EmptyResult, logs |-> run.logs,
           error |-> MessageOf(run.thrown).message]

\* entry, a script component that throws, a terminator
ThrowFlow ==
  Flow("throws", TRUE,
       <<EntryNode("n1", <<>>, <<>>),
         ComponentNode("n2", "script-throw", EmptyResult),
         TerminatorNode("n3", "pass_through")>>,
       <<Edge("n1", "n2", ""), Edge("n2", "n3", "")>>)

\* a throwing script is about to run, inside a live flow at node n2 or from
\* debugScriptComponent
ThrowInit ==
  /\ InitStores
  /\ call \in {[fn |-> "script", mode |-> mode, says |-> says, thrown |-> thrown,
                request |-> r, pc |-> "ready", logs |-> <<>>,
                result |-> EmptyResult, next |-> "", threw |-> FALSE,
                error |-> None, returned |-> <<>>] :
                mode \in {"live", "debug"}, says \in ScriptSays,
                thrown \in ThrownValues, r \in WalkRequests}

\* runFlow's pass over the component node: executeComponentNode catches
\* what executeScriptComponent rethrows and the empty result is merged
LiveScriptNode ==
  /\ call.fn = "script" /\ call.mode = "live" /\ call.pc = "ready"
  /\ LET run == executeThrowingScript(call.says, call.thrown)
         it == WalkIteration(ThrowFlow, "n2", InitialContext(call.request))
     IN call' = [call EXCEPT !.pc = IF it.returns THEN "returned" ELSE "loop",
                             !.logs = run.logs,
                             !.result = executeComponentNode(
                                           ThrowFlow.nodes[getNode(ThrowFlow, "n2")],
                                           InitialContext(call.request)),
                             !.next = it.next]
  /\ UNCHANGED <<storeVars, caVars, engineVars, reqs, compVars, flowVars, appConfig>>

\* runFlow's next pass, over the node after the script
LiveWalkGoesOn ==
  /\ call.fn = "script" /\ call.mode = "live" /\ call.pc = "loop"
  /\ LET it == WalkIteration(ThrowFlow, call.next, InitialContext(call.request))
     IN call' = [call EXCEPT !.pc = IF it.returns THEN "returned" ELSE "loop",
                             !.next = IF it.returns THEN @ ELSE it.next]
  /\ UNCHANGED <<storeVars, caVars, engineVars, reqs, compVars, flowVars, appConfig>>

\* debugScriptComponent is called and returns
DebugScriptRuns ==
  /\ call.fn = "script" /\ call.mode = "debug" /\ call.pc = "ready"
  /\ LET out == debugScriptComponent(call.says, call.thrown)
     IN call' = [call EXCEPT !.pc = "returned",
                             !.logs = executeThrowingScript(call.says, call.thrown).logs,
                             !.result = out.result,
                             !.threw = out.threw,
                             !.error = out.error,
                             !.returned = out.logs]
  /\ UNCHANGED <<storeVars, caVars, engineVars, reqs, compVars, flowVars, appConfig>>

NextThrow == LiveScriptNode \/ LiveWalkGoesOn \/ DebugScriptRuns

SpecThrow == ThrowInit /\ [][NextThrow]_vars

\* ------------------------------------------------- conditions are evaluated
ConditionExpressions ==
  {"ctx.request.method === 'PUT'", "!!ctx.response",
   "ctx.request.method ===", "ctx.missing.field"} \cup ReadsStatusCode

\* entry, a condition, and a terminator for each of its labelled edges
ConditionFlow(expression, trueTo, falseTo) ==
  Flow("branches", TRUE,
       <<EntryNode("n1", <<>>, <<>>),
         ConditionNode("n2", expression),
         TerminatorNode("n3", "end_with_response"),
         TerminatorNode("n4", "pass_through")>>,
       <<Edge("n1", "n2", "")>> \o OptionalEdge("n2", trueTo, "true")
         \o OptionalEdge("n2", falseTo, "false"))

\* the contexts the walk arrives with at the condition
ConditionContexts ==
  {[request |-> r, response |-> p, vars |-> EmptyResult, trace |-> <<>>] :
     r \in WalkRequests,
     p \in {UndefinedResponse} \cup
           {[statusCode |-> c, body |-> "", src |-> "component"] : c \in {200, 404}}}

\* runFlow has reached the condition node n2
ConditionInit ==
  /\ InitStores
  /\ call \in {[fn |-> "evalCondition", pc |-> "ready",
                flow |-> ConditionFlow(e, t, x), expression |-> e,
                falseTo |-> x, before |-> ctx, after |-> ctx,
                threw |-> FALSE, next |-> ""] :
                e \in ConditionExpressions, t \in {"n3", ""}, x \in {"n4", ""},
                ctx \in ConditionContexts}

\* runFlow's pass over the condition node
ConditionNodeRuns ==
  /\ call.fn = "evalCondition" /\ call.pc = "ready"
  /\ LET it == WalkIteration(call.flow, "n2", call.before)
     IN call' = [call EXCEPT !.pc = "loop",
                             !.threw = conditionThrows(call.expression, call.before),
                             !.after = it.ctx,
                             !.next = it.next]
  /\ UNCHANGED <<storeVars, caVars, engineVars, reqs, compVars, flowVars, appConfig>>

\* runFlow's next pass: the terminator the edge led to, or the end of the
\* loop when currentNodeId is null
ConditionWalkGoesOn ==
  /\ call.fn = "evalCondition" /\ call.pc = "loop"
  /\ WalkIteration(call.flow, call.next, call.after).returns
  /\ call' = [call EXCEPT !.pc = "returned"]
  /\ UNCHANGED <<storeVars, caVars, engineVars, reqs, compVars, flowVars, appConfig>>

NextCondition == ConditionNodeRuns \/ ConditionWalkGoesOn

SpecCondition == ConditionInit /\ [][NextCondition]_vars

\* --------------------------------------------------- headers are rewritten
MaxPieces == 2

\* the pieces a removeHeaderNames text is made of, between its commas
Pieces == {"x-test", "X-Test", " X-TEST ", ""}

RemoveLists == UNION {[1..n -> Pieces] : n \in 0..MaxPieces}

\* the header maps of the request before the call: names in lower case, as
\* the HTTP parser and parseRawHttpRequest produce them
InitialHeaders ==
  UNION {[names -> {"1"}] : names \in SUBSET {"x-test", "accept"}}

HeaderRewriteConfigs ==
  { [addHeaderName |-> a, addHeaderValue |-> v, removeHeaderNames |-> r,
     setHeaders |-> l[1], removeHeaders |-> l[2]] :
      a \in {"", "x-test", "X-Test"}, v \in {None, "", "v"}, r \in RemoveLists,
      l \in {<<EmptyResult, <<>> >>, <<[k \in {"X-Test"} |-> "v"], <<"X-Test">> >>} }

\* the two files that define builtinHandlers.headerRewrite
HandlerVersions == {"part_005", "builtins.ts"}

RewriteInit ==
  /\ InitStores
  /\ call \in {[fn |-> "headerRewrite", version |-> ver, config |-> cfg,
                headers |-> h, pc |-> "ready"] :
                ver \in HandlerVersions, cfg \in HeaderRewriteConfigs,
                h \in InitialHeaders}

RewrittenHeaders(version, config, headers) ==
  LET ctx == [request |-> buildHttpRequest(1, "GET", Url("http", "a.test", 0, "/x"),
                                           "a.test"),
              vars |-> EmptyResult]
      with == [ctx EXCEPT !.request.headers = headers]
  IN IF version = "part_005" THEN headerRewrite(config, with).request.headers
     ELSE headerRewriteLegacy(config, with).request.headers

\* the node runs on the request
HeaderRewriteRuns ==
  /\ call.fn = "headerRewrite"
  /\ call.pc = "ready"
  /\ call' = [fn |-> "headerRewrite", version |-> call.version,
              config |-> call.config, headers |-> call.headers, pc |-> "once",
              after |-> RewrittenHeaders(call.version, call.config, call.headers)]
  /\ UNCHANGED <<storeVars, caVars, engineVars, reqs, compVars, flowVars, appConfig>>

\* a second node with the same config runs on the request the first returned
HeaderRewriteRunsAgain ==
  /\ call.fn = "headerRewrite"
  /\ call.pc = "once"
  /\ call' = [fn |-> "headerRewrite", version |-> call.version,
              config |-> call.config, headers |-> call.headers, pc |-> "twice",
              after |-> call.after,
              again |-> RewrittenHeaders(call.version, call.config, call.after)]
  /\ UNCHANGED <<storeVars, caVars, engineVars, reqs, compVars, flowVars, appConfig>>

NextRewrite == HeaderRewriteRuns \/ HeaderRewriteRunsAgain

SpecRewrite == RewriteInit /\ [][NextRewrite]_vars

\* --------------------------------------------------- failures are injected
\* a random-failure node is about to run with this config and this draw
\* (statusCode 0 and body "" = not configured)
FailureInit ==
  /\ InitStores
  /\ call \in {[fn |-> "randomFailure",
                config |-> [errorRate |-> e, statusCode |-> sc, body |-> ""],
                draw |-> d, pc |-> "ready"] :
                e \in ErrorRates, sc \in {0, 503}, d \in Draws}

RandomFailureRuns ==
  /\ call.fn = "randomFailure"
  /\ call.pc = "ready"
  /\ call' = [fn |-> "randomFailure", config |-> call.config, draw |-> call.draw,
              pc |-> "done", result |-> randomFailure(call.config, call.draw)]
  /\ UNCHANGED <<storeVars, caVars, engineVars, reqs, compVars, flowVars, appConfig>>

NextFailure == RandomFailureRuns

SpecFailure == FailureInit /\ [][NextFailure]_vars

\* ------------------------------------------------ responses are forwarded
\* an upstream response with these headers and body bytes is arriving
BodyInit ==
  /\ InitStores
  /\ call \in {[fn |-> "forwardRequest", ct |-> ct, ce |-> ce, bytes |-> bytes,
                pc |-> "reading"] :
                ct \in ContentTypes, ce \in ContentEncodings, bytes \in Bodies}

\* proxyRes 'end', then sendResponse(clientRes, response, rawBody)
UpstreamResponseEnds ==
  /\ call.fn = "forwardRequest"
  /\ call.pc = "reading"
  /\ LET result == ForwardResult(call.ct, call.ce, call.bytes)
     IN call' = [fn |-> "forwardRequest", ct |-> call.ct, ce |-> call.ce,
                 bytes |-> call.bytes, pc |-> "sent",
                 recorded |-> result.response,
                 written |-> sendResponse(result.response, result.rawBody)]
  /\ UNCHANGED <<storeVars, caVars, engineVars, reqs, compVars, flowVars, appConfig>>

NextBody == UpstreamResponseEnds

SpecBody == BodyInit /\ [][NextBody]_vars

\* ------------------------------------------------------ flows are debugged
\* the requests held in records and given as raw text
DebugInputs ==
  {<<"GET", Url("http", "a.test", 0, "/x")>>, <<"PUT", OriginForm("/x")>>}

DebugRecIds == 1..2

\* the flows that are debugged
DebugFlowIds == {"default-flow", "mock-chain", "faulty", "tagged", "respond-pass"}

\* the outcome of the FLOW_DEBUG handler for { flowId, requestRecordId,
\* rawHttpText }; 0 stands for no record id and NoRequest for no raw text,
\* and the raw text is named by the request parseRawHttpRequest reads from it
FlowDebugOutcome(flowId, requestRecordId, raw) ==
  LET failed(message) ==
        [fn |-> "FLOW_DEBUG", flowId |-> flowId,
         requestRecordId |-> requestRecordId, success |-> FALSE,
         errorMessage |-> message, logs |-> <<>>, console |-> <<>>]
  IN IF requestRecordId # 0 /\ requestRecordId \notin DOMAIN recordMap
     THEN failed("Request record not found")
     ELSE IF requestRecordId = 0 /\ raw = NoRequest
     THEN failed("No request data provided")
     ELSE LET request == IF requestRecordId # 0
                         THEN recordMap[requestRecordId].request ELSE raw
          IN IF FlowIndex(flowStore, flowId) = 0
             THEN failed("Flow not found")
             ELSE LET run == debugFlow(flowStore[FlowIndex(flowStore, flowId)], request)
                  IN [fn |-> "FLOW_DEBUG", flowId |-> flowId,
                      requestRecordId |-> requestRecordId, success |-> TRUE,
                      logs |-> run.sinks.logs, console |-> run.sinks.console,
                      before |-> [request |-> request],
                      after |-> [request |-> run.result.request,
                                 response |-> run.result.response]]

\* FLOW_DEBUG
FlowDebug ==
  /\ \E flowId \in DebugFlowIds \cup {"missing"}, requestRecordId \in DebugRecIds \cup {0},
        raw \in {buildHttpRequest(0, i[1], i[2], "a.test") : i \in DebugInputs}
              \cup {NoRequest} :
       call' = FlowDebugOutcome(flowId, requestRecordId, raw)
  /\ UNCHANGED <<storeVars, caVars, engineVars, reqs, compVars, flowVars, appConfig>>

\* FLOW_SAVE between debug runs
DebugFlowSave ==
  /\ \E flow \in {f \in FlowLibrary : f.id \in DebugFlowIds} :
       /\ Len(FlowStoreSave(flowStore, flow)) <= MaxFlows
       /\ flowStore' = FlowStoreSave(flowStore, flow)
  /\ call' = NoCall
  /\ UNCHANGED <<storeVars, caVars, engineVars, reqs, compVars, sample, processed,
                 appConfig>>

\* the engine records a request it received
DebugRecordRequest ==
  /\ \E id \in DebugRecIds, i \in DebugInputs :
       StoreAdd(CreateRecord(buildHttpRequest(id, i[1], i[2], "a.test")))
  /\ call' = NoCall
  /\ UNCHANGED <<caVars, engineVars, reqs, compVars, flowVars, appConfig>>

NextDebug == FlowDebug \/ DebugFlowSave \/ DebugRecordRequest

SpecDebug == Init /\ [][NextDebug]_vars

\* -------------------------------------------------- the proxy engine runs
notEngine == <<storeVars, caVars, reqs, compVars, flowVars, restVars>>

\* start() is called when no server of an earlier start is left
ProxyStart ==
  /\ \A s \in ServerIds : servers[s].st = "none"
  /\ Start
  /\ UNCHANGED notEngine

ProxyStartListening == (\E s \in ServerIds : StartListening(s)) /\ UNCHANGED notEngine

ProxyStartError == (\E s \in ServerIds : StartError(s)) /\ UNCHANGED notEngine

ProxyStop == Stop /\ UNCHANGED notEngine

ProxyStopClosed == (\E s \in ServerIds : StopClosed(s)) /\ UNCHANGED notEngine

Connection == (\E c \in SocketIds : ClientConnect(c)) /\ UNCHANGED notEngine

ConnectionClose == (\E c \in SocketIds : SocketClose(c)) /\ UNCHANGED notEngine

ConfigMitm == (\E b \in BOOLEAN : SetHttpsMitmEnabled(b)) /\ UNCHANGED notEngine

Connect ==
  /\ \E c \in SocketIds, h \in ConnectHosts, p \in ConnectPorts,
        outcome \in WriteOutcomes : HandleConnect(c, h, p, outcome)
  /\ UNCHANGED <<storeVars, reqs, compVars, flowVars, restVars>>

\* CONNECT when the certificate files can be written
ConnectOk ==
  /\ \E c \in SocketIds, h \in ConnectHosts, p \in ConnectPorts :
        HandleConnect(c, h, p, "ok")
  /\ UNCHANGED <<storeVars, reqs, compVars, flowVars, restVars>>

MitmSetupListening == (\E m \in MitmIds : MitmListening(m)) /\ UNCHANGED notEngine

MitmSetupError == (\E m \in MitmIds : MitmListenError(m)) /\ UNCHANGED notEngine

TunnelBroken == (\E c \in SocketIds : TunnelError(c)) /\ UNCHANGED notEngine

TunnelTraffic == (\E c \in SocketIds : RawTunnelTraffic(c)) /\ UNCHANGED notEngine

PlainRequest ==
  /\ \E c \in SocketIds, input \in PlainInputs :
       HandleRequest(c, input[1], input[2])
  /\ UNCHANGED <<caVars, engineVars, compVars, flowVars, restVars>>

MitmRequest ==
  /\ \E c \in SocketIds, method \in MitmMethods : HandleHttpsRequest(c, method)
  /\ UNCHANGED <<caVars, engineVars, compVars, flowVars, restVars>>

FlowDecided == (\E r \in ReqIds : FlowDone(r)) /\ UNCHANGED <<caVars, engineVars, compVars, flowVars, restVars>>

UpstreamAnswered ==
  (\E r \in ReqIds : UpstreamResponse(r)) /\ UNCHANGED <<caVars, engineVars, compVars, flowVars, restVars>>

UpstreamFailed ==
  (\E r \in ReqIds : UpstreamFailure(r)) /\ UNCHANGED <<caVars, engineVars, compVars, flowVars, restVars>>

ClearRequests == StoreClear /\ UNCHANGED otherThanStore

\* SpecProxy: the listener, client connections, CONNECT tunnels, MITM
\* listener setup and stop.  Request handlers neither read nor write the
\* state of these actions, so they are left to SpecTunnel and SpecReq.
NextProxy ==
  \/ ProxyStart \/ ProxyStartListening \/ ProxyStartError
  \/ ProxyStop \/ ProxyStopClosed
  \/ Connection \/ ConnectionClose \/ ConfigMitm
  \/ Connect \/ MitmSetupListening \/ MitmSetupError
  \/ TunnelBroken

SpecProxy == Init /\ [][NextProxy]_vars

\* SpecStartStop: start and stop calls in any interleaving.  PROXY_START and
\* CONFIG_SAVE call start() whenever isRunning() is false, which it still is
\* while an earlier start() waits for its listen callback.
EngineStart == Start /\ UNCHANGED notEngine

NextStartStop ==
  \/ EngineStart \/ ProxyStartListening \/ ProxyStartError
  \/ ProxyStop \/ ProxyStopClosed
  \/ Connection \/ ConnectionClose

SpecStartStop == Init /\ [][NextStartStop]_vars

\* SpecSystemProxy: the handlers that drive the system proxy of the OS.
\* call holds the setting applySystemProxySetting applied last (applied
\* flips at every application) and awaiting, the servers whose start() a
\* CONFIG_SAVE handler is waiting for.
\* new ProxyEngine({ port: config.proxyPort, ... }) at launch; this.port is
\* assigned in the constructor only
EnginePort == DEFAULT_CONFIG.proxyPort

\* the partial configs the settings form saves
SystemProxyPartials ==
  { ObjectSpread(p, e) :
      p \in {EmptyResult} \cup {[proxyPort |-> n] : n \in {DefaultProxyPort, DefaultProxyPort + 1}},
      e \in {EmptyResult} \cup {[systemProxyEnabled |-> b] : b \in BOOLEAN} }

SystemProxyInit ==
  /\ InitStores
  /\ call = [fn |-> "applySystemProxySetting", enabled |-> FALSE, port |-> 0,
             applied |-> FALSE, awaiting |-> {}]

\* applySystemProxySetting(enabled, ctx) on a supported platform: the port
\* is read from the saved config
applySystemProxySetting(enabled, config, last) ==
  [last EXCEPT !.enabled = enabled,
               !.port = IF enabled THEN config.proxyPort ELSE @,
               !.applied = ~@]

\* the CONFIG_SAVE handler for a config without httpsMitmEnabled, up to its
\* await of start() or to its end
SystemProxyConfigSave ==
  \E partial \in SystemProxyPartials :
    /\ appConfig' = saveConfig(appConfig, partial)
    /\ IF "systemProxyEnabled" \notin DOMAIN partial
       THEN UNCHANGED <<engineVars, call>>
       ELSE IF ~partial.systemProxyEnabled
       THEN /\ call' = applySystemProxySetting(FALSE, appConfig', call)
            /\ UNCHANGED engineVars
       ELSE IF running
       THEN /\ call' = applySystemProxySetting(TRUE, appConfig', call)
            /\ UNCHANGED engineVars
       ELSE /\ Start
            /\ call' = [call EXCEPT !.awaiting = @ \cup server']
    /\ UNCHANGED <<storeVars, caVars, reqs, compVars, flowVars>>

\* the PROXY_START handler when isRunning() is false
SystemProxyStart ==
  /\ ~running
  /\ Start
  /\ UNCHANGED notEngine

\* the listen callback; a CONFIG_SAVE handler that awaited this start()
\* goes on to applySystemProxySetting(true)
SystemProxyStartListening ==
  \E s \in ServerIds :
    /\ StartListening(s)
    /\ call' = IF s \in call.awaiting
               THEN [applySystemProxySetting(TRUE, appConfig, call)
                       EXCEPT !.awaiting = @ \ {s}]
               ELSE call
    /\ UNCHANGED <<storeVars, caVars, reqs, compVars, flowVars, appConfig>>

\* the 'error' handler of start(): the awaiting handler catches the
\* rejection and applies nothing
SystemProxyStartError ==
  \E s \in ServerIds :
    /\ StartError(s)
    /\ call' = [call EXCEPT !.awaiting = @ \ {s}]
    /\ UNCHANGED <<storeVars, caVars, reqs, compVars, flowVars, appConfig>>

\* the rest of the PROXY_STOP handler once stop() has resolved
AfterStop ==
  IF "systemProxyEnabled" \in DOMAIN appConfig /\ appConfig.systemProxyEnabled
  THEN /\ call' = applySystemProxySetting(FALSE, appConfig, call)
       /\ appConfig' = saveConfig(appConfig, [systemProxyEnabled |-> FALSE])
  ELSE UNCHANGED <<appConfig, call>>

\* the PROXY_STOP handler: stop() resolves at once when there is nothing to
\* stop
SystemProxyStop ==
  /\ Stop
  /\ IF server = {} \/ ~running THEN AfterStop ELSE UNCHANGED <<appConfig, call>>
  /\ UNCHANGED <<storeVars, caVars, reqs, compVars, flowVars>>

\* the close callback resolves stop(); the PROXY_STOP handler goes on
SystemProxyStopClosed ==
  /\ \E s \in ServerIds : StopClosed(s)
  /\ AfterStop
  /\ UNCHANGED <<storeVars, caVars, reqs, compVars, flowVars>>

NextSystemProxy ==
  \/ SystemProxyConfigSave \/ SystemProxyStart
  \/ SystemProxyStartListening \/ SystemProxyStartError
  \/ SystemProxyStop \/ SystemProxyStopClosed

SpecSystemProxy == SystemProxyInit /\ [][NextSystemProxy]_vars

\* destroy() is followed by the socket's 'close' event, and server.close()
\* calls back once the server has no connection left
DestroyedSocketCloses ==
  /\ \E c \in SocketIds : sockets[c].st = "destroyed" /\ SocketClose(c)
  /\ UNCHANGED notEngine

LiveSpecProxy ==
  SpecProxy /\ WF_vars(DestroyedSocketCloses) /\ WF_vars(ProxyStopClosed)

\* SpecTunnel: a running engine with CONNECT tunnels, traffic inside them
\* and the MITM switch
TunnelRequest ==
  /\ \E c \in SocketIds : HandleHttpsRequest(c, "GET")
  /\ UNCHANGED <<caVars, engineVars, compVars, flowVars, restVars>>

NextTunnel ==
  \/ ProxyStart \/ ProxyStartListening
  \/ Connection \/ ConfigMitm
  \/ ConnectOk \/ MitmSetupListening
  \/ TunnelTraffic
  \/ TunnelRequest \/ FlowDecided \/ UpstreamAnswered \/ UpstreamFailed

SpecTunnel == Init /\ [][NextTunnel]_vars

\* SpecReq: a running engine handling plain and decrypted requests; clients
\* connect in the order of the socket ids and send CONNECT for a.test
LeastClosed ==
  LET closed == {c \in SocketIds : sockets[c].st = "closed"}
  IN IF closed = {} THEN {} ELSE {CHOOSE c \in closed : \A d \in closed : c <= d}

NextConnection == (\E c \in LeastClosed : ClientConnect(c)) /\ UNCHANGED notEngine

ConnectMitm ==
  /\ httpsMitmEnabled
  /\ \E c \in SocketIds, p \in {443, 8443} : HandleConnect(c, "a.test", p, "ok")
  /\ UNCHANGED <<storeVars, reqs, compVars, flowVars, restVars>>

NextReq ==
  \/ ProxyStart \/ ProxyStartListening
  \/ NextConnection \/ ConnectMitm \/ MitmSetupListening
  \/ PlainRequest \/ MitmRequest \/ FlowDecided
  \/ UpstreamAnswered \/ UpstreamFailed \/ ClearRequests

SpecReq == Init /\ [][NextReq]_vars

\* ---------------------------------------------------------------- claims

\* C1: the Recorder never holds more than capacity records, and an add of a
\* new id to a full Recorder removes exactly one record, the one inserted
\* earliest among those held.
C1_BoundedOldestFirst ==
  /\ [](Len(records) <= MAX_RECORDS)
  /\ [][ (/\ Len(records) >= MAX_RECORDS
          /\ RecordIds(records') \ RecordIds(records) # {})
         => (/\ RecordIds(records) \ RecordIds(records') = {Head(insertOrder)}
             /\ Len(records') = Len(records)) ]_vars

C1_Witness ==
  /\ lastEvicted # {}
  /\ Len(records) = MAX_RECORDS
  /\ lastEvicted \cap RecordIds(records) = {}

\* C3: every leaf returned by certificate-for-host, cached or fresh, is
\* signed by the root key currently loaded in the CA.
C3_ReturnedLeafSignedByLoadedRoot ==
  \A leaf \in caReturned : leaf.signedBy = caKey

\* C2: concurrent CONNECTs to one hostname with MITM enabled create exactly
\* one local TLS listener for that hostname, and no listener created by the
\* engine is missing from the hostname-to-listener table.
C2_OneListenerPerHostname ==
  /\ \A m, n \in MitmIds :
        (/\ mitmServers[m].st # "none"
         /\ mitmServers[n].st # "none"
         /\ mitmServers[m].host = mitmServers[n].host) => m = n
  /\ \A m \in MitmIds :
        mitmServers[m].st = "listening" =>
          \E h \in DOMAIN httpsMitmServers : httpsMitmServers[h] = m

\* C8: a stop() that closes the listener eventually resolves; the call
\* destroys every tracked socket in the step that closes the listener, and
\* when it resolves the engine is not running, tracks no socket and its
\* MITM listener table is empty.
C8_StopResolves ==
  /\ \A s \in ServerIds : (servers[s].stops > 0) ~> (servers[s].stops = 0)
  /\ [][ \A s \in ServerIds :
           servers'[s].stops > servers[s].stops =>
             \A c \in connections : sockets'[c].st # "open" ]_vars
  /\ [][ \A s \in ServerIds :
           (servers[s].stops > 0 /\ servers'[s].stops = 0) =>
             /\ ~running'
             /\ connections' = {}
             /\ DOMAIN httpsMitmServers' = {} ]_vars

\* stop() has been called with a raw and a MITM tunnel open
C8_Witness ==
  /\ \E s \in ServerIds : servers[s].st = "closing"
  /\ \E c, d \in SocketIds :
        /\ sockets[c].st = "destroyed" /\ sockets[c].kind = "raw"
        /\ sockets[d].st = "destroyed" /\ sockets[d].kind = "mitm"

\* C9: setHttpsMitmEnabled(false) closes no tunnel, connection or listener;
\* a CONNECT handled while MITM is disabled becomes a raw tunnel; traffic
\* inside a raw tunnel creates no request and no record.
C9_DisableKeepsTunnels ==
  /\ [][ (httpsMitmEnabled /\ ~httpsMitmEnabled') =>
           UNCHANGED <<running, server, servers, httpsMitmServers, mitmServers,
                       connections, sockets>> ]_vars
  /\ [][ \A c \in SocketIds :
           (/\ ~httpsMitmEnabled
            /\ sockets[c].kind = "http"
            /\ sockets'[c].kind # "http") => sockets'[c].kind = "raw" ]_vars
  /\ [][ \A c \in SocketIds :
           (sockets[c].kind = "raw" /\ ~sockets[c].carried /\ sockets'[c].carried)
             => UNCHANGED <<storeVars, reqs>> ]_vars
  /\ [][ RecordIds(records') \ RecordIds(records) # {} =>
           \E c \in SocketIds :
             sockets[c].st = "open" /\ sockets[c].kind \in {"http", "mitm"} ]_vars

\* MITM was disabled with a MITM tunnel open; a later CONNECT for a.test is
\* a raw tunnel that has carried traffic
C9_Witness ==
  /\ ~httpsMitmEnabled
  /\ records = <<>>
  /\ \E c, d \in SocketIds :
        /\ sockets[c].st = "open" /\ sockets[c].kind = "raw"
        /\ sockets[c].host = "a.test" /\ sockets[c].carried
        /\ sockets[d].st = "open" /\ sockets[d].kind = "mitm"

\* C4: once the flow decision for a request is made the Recorder has
\* received, after the create, an update carrying the matched-flow id and no
\* response; the response and duration arrive in a later, third write.
C4_CreateDecisionResponse ==
  \A r \in ReqIds :
    LET w == reqs[r].writes IN
    /\ reqs[r].pc # "idle" => (Len(w) >= 1 /\ DOMAIN w[1] = {"id", "request"})
    /\ reqs[r].pc \in {"forward", "done"} =>
         /\ Len(w) >= 2
         /\ "matchedFlowId" \in DOMAIN w[2]
         /\ "response" \notin DOMAIN w[2]
    /\ \A i \in 1..Len(w) : "response" \in DOMAIN w[i] => i = 3

C6_RecordedUrlIsUpstream ==
  \A i \in 1..Len(records) :
    LET url == records[i].request.url
        upstream == reqs[records[i].id].upstream
    IN upstream # NoUpstream =>
         /\ url.host = upstream.host
         /\ upstream.port = IF url.port # 0 THEN url.port
                            ELSE IF url.scheme = "https" THEN 443 ELSE 80

\* C6 amended: the same, for the requests whose URL the flow left as it was.
C6_RecordedUrlIsUpstreamUnlessRewritten ==
  \A i \in 1..Len(records) :
    LET url == records[i].request.url
        upstream == reqs[records[i].id].upstream
    IN (/\ upstream # NoUpstream
        /\ reqs[records[i].id].flowResult.request.url = url) =>
         /\ url.host = upstream.host
         /\ upstream.port = IF url.port # 0 THEN url.port
                            ELSE IF url.scheme = "https" THEN 443 ELSE 80

\* a recorded MITM request of a tunnel opened with CONNECT a.test:8443 on
\* the listener created for a.test:443, forwarded and answered
C6_Witness ==
  \E i \in 1..Len(records) :
    /\ reqs[records[i].id].via = "mitm"
    /\ reqs[records[i].id].clientRes.src = "upstream"
    /\ records[i].request.headers["host"] = <<"a.test", 8443>>
    /\ reqs[records[i].id].upstream = [host |-> "a.test", port |-> 443]

\* C7: every request stored in the Recorder has an absolute URL.
C7_StoredUrlAbsolute ==
  \A i \in 1..Len(records) : IsAbsoluteUrl(records[i].request.url)

C11_FailureRecordsDuration ==
  \A r \in ReqIds :
    (/\ reqs[r].pc = "done"
     /\ reqs[r].upstream # NoUpstream
     /\ reqs[r].clientRes.src = "engine") =>
      LET last == reqs[r].writes[Len(reqs[r].writes)] IN
      /\ reqs[r].clientRes.statusCode = 502
      /\ "response" \notin DOMAIN last
      /\ "durationMs" \in DOMAIN last

\* C20: an add that brings no new id (the id is already present) evicts
\* nothing, keeps the count and the order of the records, changes at most
\* the record with that id, and that record keeps every field it had; the
\* list and the id index agree on it.  This holds also when the Recorder is
\* full.
C20_UpdateInPlace ==
  [][ (/\ RecordIds(records') \ RecordIds(records) = {}
       /\ records' # <<>>) =>
      (/\ Len(records') = Len(records)
       /\ \A i \in 1..Len(records) :
            /\ records'[i].id = records[i].id
            /\ DOMAIN records[i] \subseteq DOMAIN records'[i]
            /\ recordMap'[records[i].id] = records'[i]
       /\ \A i, j \in 1..Len(records) :
            (records'[i] # records[i] /\ records'[j] # records[j]) => i = j) ]_vars

\* a full Recorder whose oldest record has a response and then had its
\* request replaced by a later add of the same id
C20_Witness ==
  /\ Len(records) = MAX_RECORDS
  /\ "response" \in DOMAIN records[1]
  /\ records[1].request = "q2"

\* C12: after any sequence of ComponentStore save and delete calls every
\* built-in id is present and maps to its built-in definition.
C12_BuiltinsKept ==
  \A id \in BuiltinIds :
    id \in DOMAIN components /\ components[id] = BUILTIN_COMPONENTS[id]


\* C13: processRequest runs the first flow, in the iteration order of the
\* store, that is enabled and whose Entry matches the request, and no other;
\* a disabled flow is never run; when there is no such flow the request comes
\* back unchanged, without a response and without a matched-flow id.
C13_FirstEnabledMatch ==
  sample # NoRequest =>
    LET hits == {i \in 1..Len(flowStore) :
                   /\ flowStore[i].enabled
                   /\ findEntryNode(flowStore[i]) # 0
                   /\ matchesRule(sample,
                        flowStore[i].nodes[findEntryNode(flowStore[i])].match)}
    IN IF hits = {}
       THEN /\ processed.request = sample
            /\ processed.response = UndefinedResponse
            /\ processed.matchedFlowId = None
            /\ processed.trace = <<>>
       ELSE LET first == CHOOSE i \in hits : \A j \in hits : i <= j
            IN /\ processed.matchedFlowId = flowStore[first].id
               /\ processed = runFlow(flowStore[first], sample)
               /\ \A k \in 1..Len(processed.trace) :
                     getNode(flowStore[first], processed.trace[k].node) # 0

\* a disabled flow that matches comes first, the enabled flow after it ran
C13_Witness ==
  /\ sample # NoRequest
  /\ Len(flowStore) = 2
  /\ \A i \in 1..2 :
       matchesRule(sample, flowStore[i].nodes[findEntryNode(flowStore[i])].match)
  /\ ~flowStore[1].enabled /\ flowStore[1].id = "direct-end"
  /\ flowStore[2].enabled /\ flowStore[2].id = "respond-end"
  /\ processed.matchedFlowId = "respond-end"
  /\ processed.response # UndefinedResponse


\* C14: an Entry rule matches a request iff the method is in the method list
\* (or there is no list), the hostname matches at least one host glob (or
\* there is no list) and the path matches at least one path glob (or there is
\* no list); the glob * accepts every request in its dimension.
C14_RuleMatchesIffEveryDimension ==
  sample # NoRequest =>
    \A i \in 1..Len(flowStore) :
      LET rule == flowStore[i].nodes[findEntryNode(flowStore[i])].match
          Accepts(list, part) ==
            \/ list = <<>>
            \/ \E k \in 1..Len(list) :
                 \/ list[k] = "*"
                 \/ IsAbsoluteUrl(sample.url) /\ RegexTest(Chars(part), Chars(list[k]))
      IN matchesRule(sample, rule) <=>
           /\ rule.methods = <<>> \/ \E k \in 1..Len(rule.methods) :
                                      rule.methods[k] = sample.method
           /\ Accepts(rule.hostPatterns, sample.url.host)
           /\ Accepts(rule.pathPatterns, sample.url.path)


\* C15: when the walk reaches a Terminator the flow result carries a response
\* (and the engine answers from it) iff the mode is end_with_response and the
\* context holds a response; a pass_through terminator yields the request
\* only, whatever response a component installed.
C15_TerminatorModeDecides ==
  (sample # NoRequest /\ processed.endedBy = "terminator") =>
    LET flow == flowStore[FlowIndex(flowStore, processed.matchedFlowId)]
        last == processed.trace[Len(processed.trace)]
        node == flow.nodes[getNode(flow, last.node)]
    IN /\ node.type = "terminator"
       /\ processed.request = last.before.request
       /\ HasFlowResponse(processed) <=>
            (node.mode = "end_with_response" /\ last.before.response # UndefinedResponse)
       /\ HasFlowResponse(processed) => processed.response = last.before.response
       /\ node.mode = "pass_through" => processed.response = UndefinedResponse

\* a script installed a response and the walk reached a pass_through terminator
C15_Witness ==
  /\ sample # NoRequest
  /\ processed.endedBy = "terminator"
  /\ processed.matchedFlowId = "respond-pass"
  /\ processed.trace[Len(processed.trace)].before.response # UndefinedResponse
  /\ processed.trace[Len(processed.trace)].before.response.src = "component"
  /\ ~HasFlowResponse(processed)


\* C16: when the result of a component has terminate set, that node is the
\* last one the walk handles, and the flow result is the request and the
\* response of the context after the result was merged into it.
C16_TerminateEndsWalk ==
  sample # NoRequest =>
    \A k \in 1..Len(processed.trace) :
      LET flow == flowStore[FlowIndex(flowStore, processed.matchedFlowId)]
          visit == processed.trace[k]
          node == flow.nodes[getNode(flow, visit.node)]
          result == executeComponentNode(node, visit.before)
      IN (/\ visit.type = "component"
          /\ "terminate" \in DOMAIN result
          /\ result.terminate) =>
           /\ k = Len(processed.trace)
           /\ processed.endedBy = "terminate"
           /\ visit.after.request =
                IF "request" \in DOMAIN result THEN result.request ELSE visit.before.request
           /\ visit.after.response =
                IF "response" \in DOMAIN result THEN result.response ELSE visit.before.response
           /\ processed.request = visit.after.request
           /\ processed.response = visit.after.response

\* mock-response terminated the mock-chain flow after a script had installed
\* another response; the script and the terminator after it were not reached
C16_Witness ==
  /\ sample # NoRequest
  /\ processed.matchedFlowId = "mock-chain"
  /\ Len(processed.trace) = 3
  /\ processed.trace[2].after.response.statusCode = 298
  /\ processed.trace[3].node = "m"
  /\ processed.response.statusCode = 201
  /\ processed.endedBy = "terminate"


\* C17: when a Condition evaluates to a branch for which no edge leaving the
\* node carries that label, the condition is the last node the walk handles,
\* whatever other edges leave the node.
C17_UnlabelledBranchEndsWalk ==
  sample # NoRequest =>
    \A k \in 1..Len(processed.trace) :
      LET flow == flowStore[FlowIndex(flowStore, processed.matchedFlowId)]
          visit == processed.trace[k]
          node == flow.nodes[getNode(flow, visit.node)]
          label == IF evalCondition(node.expression, visit.before)
                   THEN "true" ELSE "false"
      IN (/\ visit.type = "condition"
          /\ ~\E e \in 1..Len(flow.edges) :
                /\ flow.edges[e].from = node.id
                /\ flow.edges[e].conditionLabel = label) =>
           /\ k = Len(processed.trace)
           /\ processed.endedBy = "walkEnded"

\* the condition of the cond flow was true, and the node has an unlabelled
\* edge and a "false" edge only
C17_Witness ==
  /\ sample # NoRequest
  /\ sample.method = "PUT"
  /\ processed.matchedFlowId = "cond"
  /\ Len(processed.trace) = 2
  /\ processed.trace[2].type = "condition"
  /\ processed.endedBy = "walkEnded"
  /\ LET flow == flowStore[FlowIndex(flowStore, "cond")]
     IN /\ \E e \in 1..Len(flow.edges) :
             flow.edges[e].from = "q" /\ flow.edges[e].conditionLabel = ""
        /\ \E e \in 1..Len(flow.edges) :
             flow.edges[e].from = "q" /\ flow.edges[e].conditionLabel = "false"


\* C18: a Component node whose component id is unknown, whose built-in
\* handler name is unknown, or whose handler or script throws leaves the
\* request, the response and the vars of the context as they were before the
\* node, and the walk goes on with the node's normal successor.
C18_FailedNodeLeavesContext ==
  sample # NoRequest =>
    \A k \in 1..Len(processed.trace) :
      LET flow == flowStore[FlowIndex(flowStore, processed.matchedFlowId)]
          visit == processed.trace[k]
          node == flow.nodes[getNode(flow, visit.node)]
          def == ComponentDefs[node.componentId]
          fails ==
            \/ node.componentId \notin DOMAIN ComponentDefs
            \/ /\ def.type = "builtin"
               /\ "throws" \in DOMAIN
                     executeBuiltinComponent(def.internalName, node.config, visit.before)
            \/ /\ def.type = "script"
               /\ "throws" \in DOMAIN
                     executeScriptComponent(def.scriptCode, node.config, visit.before)
      IN (visit.type = "component" /\ fails) =>
           /\ visit.after.request = visit.before.request
           /\ visit.after.response = visit.before.response
           /\ visit.after.vars = visit.before.vars
           /\ k < Len(processed.trace)
           /\ processed.trace[k + 1].node = getNextNodeId(flow, node.id)
           /\ processed.endedBy # "terminate"


\* C19: a flow whose Entry leads directly to a Terminator, with no Component
\* and no Condition node, yields the request it was given and no response in
\* either terminator mode, so the engine forwards the same request as when no
\* flow matched.
C19_DirectFlowIsPassThrough ==
  (sample # NoRequest /\ processed.matchedFlowId # None) =>
    LET flow == flowStore[FlowIndex(flowStore, processed.matchedFlowId)]
        unmatched == processRequest(<<>>, sample)
    IN (\A n \in 1..Len(flow.nodes) : flow.nodes[n].type \in {"entry", "terminator"}) =>
         /\ processed.request = sample
         /\ processed.response = UndefinedResponse
         /\ HasFlowResponse(processed) = HasFlowResponse(unmatched)
         /\ ForwardedRequest(sample, processed) = ForwardedRequest(sample, unmatched)

\* the flow Entry -> Terminator(end_with_response) ran on a request
C19_Witness ==
  /\ sample # NoRequest
  /\ processed.matchedFlowId = "direct-end"
  /\ processed.endedBy = "terminator"
  /\ Len(processed.trace) = 2
  /\ processed.request = sample
  /\ ~HasFlowResponse(processed)


\* C21: the capacity of the Recorder is the configured maxRequestRecords: an
\* add of a record with a new id evicts exactly when that many records are
\* held, so that the store does not grow beyond it.
C21_CapacityIsConfigured ==
  [][ (RecordIds(records') \ RecordIds(records) # {}) =>
        /\ (Len(records) >= appConfig.maxRequestRecords) => Len(records') <= Len(records)
        /\ (Len(records) < appConfig.maxRequestRecords) => Len(records') = Len(records) + 1
    ]_vars


\* C22: the certificate getCertificateForHost(h) returns has Common Name h
\* and a DNS subjectAltName h, and an IP subjectAltName h when h is a literal
\* IPv4 address, on a cache hit as on a fresh mint; so has every cached leaf.
C22_LeafNamesRequestedHost ==
  /\ \A leaf \in caReturned :
       /\ call.fn = "getCertificateForHost"
       /\ leaf.cn = call.hostname
       /\ leaf.sanDns = call.hostname
       /\ IsIPv4(call.hostname) => leaf.sanIp = call.hostname
  /\ \A h \in DOMAIN certCache :
       /\ certCache[h].cn = h
       /\ certCache[h].sanDns = h
       /\ IsIPv4(h) => certCache[h].sanIp = h

\* a cache hit for the IPv4 literal after a leaf for another hostname was minted
C22_Witness ==
  /\ call.fn = "getCertificateForHost"
  /\ call.hostname = "10.0.0.1"
  /\ mintCount = 2
  /\ \E leaf \in caReturned : leaf.leafKey = 1 /\ leaf.sanIp = "10.0.0.1"


\* C23: a root is generated only when the persisted key or the persisted
\* certificate is missing; an initialize call (direct, or made by
\* getCertificateForHost) that finds both leaves them as they are and leaves
\* the loaded root equal to the persisted one.
C23_InitializeLoadsPersistedRoot ==
  [][ /\ genCount' # genCount => (diskKey = NullRoot \/ diskCert = NullRoot)
      /\ (/\ \/ call'.fn = "initCA"
              \/ /\ call'.fn = "getCertificateForHost"
                 /\ caKey = NullRoot \/ caCert = NullRoot
           /\ diskKey # NullRoot
           /\ diskCert # NullRoot) =>
            /\ diskKey' = diskKey
            /\ diskCert' = diskCert
            /\ caKey' = diskKey
            /\ caCert' = diskCert
    ]_vars

\* initCA was called when a generated root was already persisted and in use
C23_Witness ==
  /\ call.fn = "initCA"
  /\ genCount = 1
  /\ mintCount = 1
  /\ caKey = <<"generated", 1>> /\ diskKey = caKey
  /\ caCert = <<"generated", 1>> /\ diskCert = caCert


\* C24: importCAFromPem is all-or-nothing: after the call the loaded key, the
\* loaded certificate and the two persisted files are all those supplied, or
\* (parse or write failure) all four are as they were before the call.
C24_ImportAllOrNothing ==
  [][ call'.fn = "importCAFromPem" =>
        \/ /\ caKey' = call'.caKeyPem
           /\ caCert' = call'.caCertPem
           /\ diskKey' = call'.caKeyPem
           /\ diskCert' = call'.caCertPem
        \/ /\ caKey' = caKey
           /\ caCert' = caCert
           /\ diskKey' = diskKey
           /\ diskCert' = diskCert
    ]_vars


C26_ScriptReachesNoHostObject ==
  (call.fn = "executeScriptComponent" /\ call.pc = "done") => call.reached = {}


\* C27: the recorded body of a forwarded response is the text of the body
\* iff the response has no Content-Encoding and its Content-Type starts with
\* text/ or contains json, javascript, xml or x-www-form-urlencoded, and is
\* absent otherwise; the bytes written to the client are the bytes read from
\* upstream in both cases.
C27_BodyRecordedIffTextual ==
  (call.fn = "forwardRequest" /\ call.pc = "sent") =>
    LET textual ==
          \/ call.ct # <<>> /\ Head(call.ct) = "text/"
          \/ \E i \in 1..Len(call.ct) :
               call.ct[i] \in {"json", "javascript", "xml", "x-www-form-urlencoded"}
    IN /\ (call.recorded.body[1] = "string") <=> (call.ce = None /\ textual)
       /\ call.recorded.body[1] = "string" =>
            Len(call.recorded.body[2]) = Len(call.bytes)
       /\ call.recorded.body[1] # "string" => call.recorded.body = <<"undefined", <<>> >>
       /\ call.written = call.bytes

\* a gzip-encoded JSON response with a byte that is no UTF-8 went through:
\* nothing recorded, the bytes written as read
C27_Witness ==
  /\ call.fn = "forwardRequest"
  /\ call.pc = "sent"
  /\ call.ct = <<"application/", "json">>
  /\ call.ce = "gzip"
  /\ call.bytes = <<255, 97>>
  /\ call.recorded.body[1] = "undefined"
  /\ call.written = <<255, 97>>


C29_RateBoundsAreCertain ==
  (call.fn = "randomFailure" /\ call.pc = "done"
     /\ call.config.errorRate[1] \in {"number", "string"}) =>
    LET rate == call.config.errorRate[2] IN
    /\ rate <= 0 => DOMAIN call.result = {}
    /\ rate >= Tenths =>
         /\ DOMAIN call.result = {"response", "terminate"}
         /\ call.result.terminate
         /\ call.result.response.statusMessage = "Injected Failure"

\* a node with errorRate 0 met the least draw, 0, and let the request pass
C29_Witness ==
  /\ call.fn = "randomFailure"
  /\ call.pc = "done"
  /\ call.config.errorRate = <<"number", 0>>
  /\ call.draw = 0
  /\ DOMAIN call.result = {}


\* C30: header-rewrite with addHeaderName H and a value, and with
\* removeHeaderNames naming H in any letter case (and nothing else set),
\* returns the headers the request had before the call, whatever they were,
\* and a second application returns the same headers as the first.
C30_AddThenRemoveRestores ==
  (/\ call.fn = "headerRewrite"
   /\ call.pc \in {"once", "twice"}
   /\ call.config.addHeaderName # ""
   /\ call.config.addHeaderValue # None
   /\ DOMAIN call.config.setHeaders = {}
   /\ call.config.removeHeaders = <<>>
   /\ \E i \in 1..Len(call.config.removeHeaderNames) :
        call.config.removeHeaderNames[i] # ""
   /\ \A i \in 1..Len(call.config.removeHeaderNames) :
        call.config.removeHeaderNames[i] \in {"", "x-test", "X-Test", " X-TEST "}) =>
    /\ call.after = call.headers
    /\ call.pc = "twice" => call.again = call.after


\* C31: the walk of a flow that satisfies the FlowDefinition invariants
\* terminates on every request: runFlow returns a result after finitely many
\* nodes.
C31_WalkOfWellFormedFlowReturns ==
  (call.fn = "runFlow" /\ IsWellFormedFlow(call.flow)) ~> (call.pc = "returned")


\* C32: once stop has resolved and every MITM listener setup that was in
\* progress has finished, the MITM listener table is empty and no local TLS
\* listener of the engine is listening, until the next start.
C32_StoppedEngineHoldsNoMitmListener ==
  (/\ ~running
   /\ \A s \in ServerIds : servers[s].st = "none"
   /\ \A m \in MitmIds : mitmServers[m].st # "binding") =>
    /\ DOMAIN httpsMitmServers = {}
    /\ \A m \in MitmIds : mitmServers[m].st # "listening"


\* C33: in every interleaving of start and stop calls at most one proxy
\* listener of the engine holds the port, isRunning() is true only while a
\* listener of the engine holds it, and when a stop resolves no listener of
\* the engine is left bound.
C33_OneListenerStoppedByStop ==
  [][ /\ Cardinality({s \in ServerIds : HoldsPort(s)'}) <= 1
      /\ running' => \E s \in ServerIds : HoldsPort(s)'
      /\ \A s \in ServerIds :
           (servers[s].stops > 0 /\ servers'[s].stops = 0) =>
             \A t \in ServerIds : servers'[t].st \notin {"listening", "closing"}
    ]_vars


\* C34: a request id that has left the Recorder never reappears: an id
\* enters the record list only in the step in which its request arrives, so
\* the completion update of a request whose record was evicted or cleared
\* creates no record.
C34_RemovedIdNeverReappears ==
  [][ \A id \in RecordIds(records') \ RecordIds(records) :
        \A r \in ReqIds : reqs[r].request.id # id ]_vars


\* C35: the leaf cache is write-once per host: an entry is never replaced
\* or removed, a call for a hostname that has an entry returns that entry,
\* and calls for one hostname that overlap leave one leaf, which both
\* return.
C35_LeafCacheWriteOnce ==
  [][ /\ \A h \in DOMAIN certCache :
           h \in DOMAIN certCache' /\ certCache'[h] = certCache[h]
      /\ call'.fn = "getCertificateForHost" =>
           \A i \in CallIds :
             call'.pending[i].st = "returned" =>
               call'.pending[i].returned = {certCache'[call'.pending[i].hostname]}
    ]_vars

\* two calls for a.test overlapped and both have returned
C35_Witness ==
  /\ call.fn = "getCertificateForHost"
  /\ call.overlap
  /\ \A i \in CallIds :
        /\ call.pending[i].st = "returned"
        /\ call.pending[i].hostname = "a.test"
        /\ call.pending[i].returned = {certCache["a.test"]}


\* C36: whenever the handlers turn the system proxy of the OS on, the
\* engine is running and the port applied to the OS is the port the engine
\* listens on, after any configuration saves and proxy starts and stops.
C36_SystemProxyPointsAtEngine ==
  [][ (/\ call'.fn = "applySystemProxySetting"
       /\ call'.applied # call.applied
       /\ call'.enabled) =>
        /\ running'
        /\ call'.port = EnginePort ]_vars

C38_ListAndIndexAgree ==
  /\ \A i, j \in 1..Len(records) : records[i].id = records[j].id => i = j
  /\ \A id \in RecIds : (getById(id) # NoRecord) <=> (id \in RecordIds(records))
  /\ \A i \in 1..Len(records) : getById(records[i].id) = records[i]
  /\ DOMAIN recordMap \subseteq RecIds
  /\ getCount = Cardinality(DOMAIN recordMap)
  /\ (records = <<>>) <=> (DOMAIN recordMap = {})

\* a full Recorder after an eviction, holding a record that an update merged
C38_Witness ==
  /\ Len(records) = MAX_RECORDS
  /\ lastEvicted # {}
  /\ \E i \in 1..Len(records) :
       /\ "response" \in DOMAIN records[i]
       /\ getById(records[i].id) = records[i]

\* C39: when a script throws, its error message is appended to the log; in
\* a live flow the node yields an empty result and the walk goes on to the
\* next node; in debug execution the call returns, without throwing, a
\* result that carries the error message and the logs.
C39_ThrowIsLoggedAndCaptured ==
  (call.fn = "script" /\ call.pc # "ready") =>
    /\ Len(call.logs) = Len(call.says) + 1
    /\ call.logs[Len(call.logs)].tag = "[Script Error]"
    /\ call.thrown.kind = "Error" =>
         call.logs[Len(call.logs)].text = call.thrown.message
    /\ call.mode = "live" => (call.result = EmptyResult /\ call.next = "n3")
    /\ call.mode = "debug" =>
         /\ ~call.threw
         /\ call.error # None
         /\ call.returned = call.logs

\* C40: when the evaluation of a condition expression throws, the condition
\* counts as false: the walk goes to the target of the edge labelled false,
\* or ends at the node when there is none, and the context is as it was.
C40_ThrowingConditionIsFalse ==
  (call.fn = "evalCondition" /\ call.pc # "ready" /\ call.threw) =>
    /\ call.next = call.falseTo
    /\ Snapshot(call.after) = Snapshot(call.before)

====
